---- MODULE Spec2Model ----
(***************************************************************************)
(* A model of simd_needle: the five byte-window matchers, the streaming    *)
(* Finder (buffer / cursor / fill / base-offset protocol over a Read       *)
(* source), the construction entry points of Finder and MmapFinder, and    *)
(* the iterator of MmapFinder::find_all.                                   *)
(*                                                                         *)
(* Byte sequences are TLA+ sequences (1-based); every index taken from the *)
(* Rust code is 0-based, so slice[k] of the code is s[k + 1] here.         *)
(* Option<usize> is an integer: NotFound for None, i >= 0 for Some(i).     *)
(* A bitmask is the set of the indices of its set bits.                    *)
(*                                                                         *)
(* Specifications:                                                         *)
(*   Spec      iteration of a Finder built by with_buffer_size, one action *)
(*             per iteration of the loop of Finder::next, over every       *)
(*             haystack, needle, buffer size, algorithm and read-chunk     *)
(*             size within the bounds                                      *)
(*   SpecWide  Spec plus haystacks wide enough for the vector loops        *)
(*   SpecCtor  one call of a constructor of Finder or MmapFinder           *)
(*   SpecFail  Spec over sources one of whose reads fails                  *)
(*   SpecSearch  one call of a matcher on a window and a needle            *)
(*   SpecMmap  MmapFinder::find_all and the calls of next() on its result  *)
(***************************************************************************)
EXTENDS Integers, Sequences, FiniteSets, TLC

\* ------------------------------------------------------------------------
\* Bounds of the model: the longest haystack and needle, the largest
\* requested buffer size, and the number of next() calls that return None
\* before the iteration is left alone
\* ------------------------------------------------------------------------
MaxHay == 4
MaxNeedle == 2
MaxBuf == 3
MaxNone == 2
\* the latest read call of a source that can be the failing one
MaxFail == 2
\* the longest window and needle over Byte handed to a matcher called on
\* its own
MaxWin == 6
MaxPat == 4

\* ------------------------------------------------------------------------
\* Program constants
\* ------------------------------------------------------------------------
DEFAULT_BUF_SIZE == 8 * 1024
SIMD_LANES == 16
SIMD_BOOST == 4
SIMD_SIZE_BOOSTED ==
    IF SIMD_LANES * SIMD_BOOST < 128 THEN SIMD_LANES * SIMD_BOOST ELSE 128
X86_BLOCK == 16
TABLE_SIZE == 256

Byte == {0, 1}
NotFound == -1

Algorithm == {"Naive", "Bmh", "Kmp", "SimdX8664", "Simd"}
NoAlgo == "NoAlgo"

\* ------------------------------------------------------------------------
\* Helpers on byte slices
\* ------------------------------------------------------------------------
MinOf(S) == CHOOSE x \in S : \A y \in S : x <= y

\* s[from..to) with 0-based bounds, as the code's slice expression
Slice(s, from, to) == [k \in 1..(to - from) |-> s[from + k]]

Zeros(n) == [k \in 1..n |-> 0]

\* ------------------------------------------------------------------------
\* search/naive.rs
\* ------------------------------------------------------------------------
\* the search over the start indices 0..last_start - 1, the last one left out
naive_search_exclusive(haystack, needle) ==
    IF Len(needle) = 0 \/ Len(haystack) < Len(needle)
    THEN NotFound
    ELSE LET last_start == Len(haystack) - Len(needle)
             hits == {i \in 0..(last_start - 1) :
                        Slice(haystack, i, i + Len(needle)) = needle}
         IN  IF hits = {} THEN NotFound ELSE MinOf(hits)

\* the search without the test for an empty needle
naive_search_unguarded(haystack, needle) ==
    IF Len(haystack) < Len(needle)
    THEN NotFound
    ELSE LET last_start == Len(haystack) - Len(needle)
             hits == {i \in 0..last_start :
                        Slice(haystack, i, i + Len(needle)) = needle}
         IN  IF hits = {} THEN NotFound ELSE MinOf(hits)

naive_search(haystack, needle) ==
    IF Len(needle) = 0 \/ Len(haystack) < Len(needle)
    THEN NotFound
    ELSE LET last_start == Len(haystack) - Len(needle)
             hits == {i \in 0..last_start :
                        Slice(haystack, i, i + Len(needle)) = needle}
         IN  IF hits = {} THEN NotFound ELSE MinOf(hits)

\* ------------------------------------------------------------------------
\* search/bmh.rs
\* ------------------------------------------------------------------------
RECURSIVE bmh_shift_keep_first(_, _, _)
\* the loop that leaves an entry alone once a byte has set it
bmh_shift_keep_first(needle, i, shift) ==
    LET m == Len(needle)
    IN  IF i >= m - 1 THEN shift
        ELSE bmh_shift_keep_first(needle, i + 1,
                 IF shift[needle[i + 1]] = m
                 THEN [shift EXCEPT ![needle[i + 1]] = m - 1 - i]
                 ELSE shift)

RECURSIVE bmh_shift(_, _, _)
\* the table-building loop "for i in 0..m - 1", from index i on
bmh_shift(needle, i, shift) ==
    LET m == Len(needle)
    IN  IF i >= m - 1 THEN shift
        ELSE bmh_shift(needle, i + 1,
                       [shift EXCEPT ![needle[i + 1]] = m - 1 - i])

RECURSIVE bmh_compare(_, _, _, _)
\* the inner right-to-left comparison; the value of j when it stops
bmh_compare(haystack, needle, i, j) ==
    IF j >= 0 /\ haystack[i + j + 1] = needle[j + 1]
    THEN bmh_compare(haystack, needle, i, j - 1)
    ELSE j

RECURSIVE bmh_scan_full_skip(_, _, _, _)
\* the scan moving on by the whole needle length after every mismatch
bmh_scan_full_skip(haystack, needle, shift, i) ==
    LET m == Len(needle)
    IN  IF i + m <= Len(haystack)
        THEN IF bmh_compare(haystack, needle, i, m - 1) < 0
             THEN i
             ELSE bmh_scan_full_skip(haystack, needle, shift, i + m)
        ELSE NotFound

RECURSIVE bmh_scan(_, _, _, _)
bmh_scan(haystack, needle, shift, i) ==
    LET m == Len(needle)
    IN  IF i + m <= Len(haystack)
        THEN IF bmh_compare(haystack, needle, i, m - 1) < 0
             THEN i
             ELSE bmh_scan(haystack, needle, shift,
                           i + shift[haystack[i + m - 1 + 1]])
        ELSE NotFound

bmh_search(haystack, needle) ==
    LET m == Len(needle)
    IN  IF m = 0 \/ Len(haystack) < m
        THEN NotFound
        ELSE bmh_scan(haystack, needle,
                      bmh_shift(needle, 0, [b \in 0..(TABLE_SIZE - 1) |-> m]),
                      0)

\* the shift table a call of bmh_search builds (none on an early return)
bmh_search_shift(haystack, needle) ==
    LET m == Len(needle)
    IN  IF m = 0 \/ Len(haystack) < m
        THEN << >>
        ELSE bmh_shift(needle, 0, [b \in 0..(TABLE_SIZE - 1) |-> m])

RECURSIVE bmh_scan_indices(_, _, _, _)
\* the values the window index i takes at the successive evaluations of
\* "while i + m <= haystack.len()"
bmh_scan_indices(haystack, needle, shift, i) ==
    LET m == Len(needle)
    IN  << i >> \o
        (IF i + m <= Len(haystack)
         THEN IF bmh_compare(haystack, needle, i, m - 1) < 0
              THEN << >>
              ELSE bmh_scan_indices(haystack, needle, shift,
                                    i + shift[haystack[i + m - 1 + 1]])
         ELSE << >>)

\* the window indices visited by a whole call of bmh_search
bmh_search_indices(haystack, needle) ==
    LET m == Len(needle)
    IN  IF m = 0 \/ Len(haystack) < m
        THEN << >>
        ELSE bmh_scan_indices(haystack, needle,
                              bmh_search_shift(haystack, needle), 0)

\* ------------------------------------------------------------------------
\* search/kmp.rs
\* ------------------------------------------------------------------------
RECURSIVE kmp_fallback(_, _, _, _)
\* "while j > 0 && needle[i] != needle[j] { j = prefix[j - 1] }"
kmp_fallback(needle, prefix, i, j) ==
    IF j > 0 /\ needle[i + 1] # needle[j + 1]
    THEN kmp_fallback(needle, prefix, i, prefix[j])
    ELSE j

RECURSIVE kmp_prefix_from_zero(_, _, _, _)
\* the loop that starts every entry from a match length of 0
kmp_prefix_from_zero(needle, prefix, i, j) ==
    IF i >= Len(needle) THEN prefix
    ELSE LET j1 == kmp_fallback(needle, prefix, i, 0)
             j2 == IF needle[i + 1] = needle[j1 + 1] THEN j1 + 1 ELSE j1
         IN  kmp_prefix_from_zero(needle, [prefix EXCEPT ![i + 1] = j2],
                                  i + 1, j2)

RECURSIVE kmp_prefix(_, _, _, _)
\* the table-building loop "for i in 1..m", from index i on
kmp_prefix(needle, prefix, i, j) ==
    IF i >= Len(needle) THEN prefix
    ELSE LET j1 == kmp_fallback(needle, prefix, i, j)
             j2 == IF needle[i + 1] = needle[j1 + 1] THEN j1 + 1 ELSE j1
         IN  kmp_prefix(needle, [prefix EXCEPT ![i + 1] = j2], i + 1, j2)

RECURSIVE kmp_scan_restart(_, _, _, _, _)
\* the scan that drops the partial match on a mismatch and moves on
kmp_scan_restart(haystack, needle, prefix, i, k) ==
    IF i < Len(haystack)
    THEN IF haystack[i + 1] = needle[k + 1]
         THEN IF k + 1 = Len(needle)
              THEN (i + 1) - Len(needle)
              ELSE kmp_scan_restart(haystack, needle, prefix, i + 1, k + 1)
         ELSE kmp_scan_restart(haystack, needle, prefix, i + 1, 0)
    ELSE NotFound

RECURSIVE kmp_scan(_, _, _, _, _)
kmp_scan(haystack, needle, prefix, i, k) ==
    IF i < Len(haystack)
    THEN IF haystack[i + 1] = needle[k + 1]
         THEN IF k + 1 = Len(needle)
              THEN (i + 1) - Len(needle)
              ELSE kmp_scan(haystack, needle, prefix, i + 1, k + 1)
         ELSE IF k > 0
              THEN kmp_scan(haystack, needle, prefix, i, prefix[k])
              ELSE kmp_scan(haystack, needle, prefix, i + 1, k)
    ELSE NotFound

RECURSIVE kmp_scan_indices(_, _, _, _, _)
\* the values the window index i takes at the successive evaluations of
\* the loop condition "while i < n" of the scan
kmp_scan_indices(haystack, needle, prefix, i, k) ==
    << i >> \o
    (IF i < Len(haystack)
     THEN IF haystack[i + 1] = needle[k + 1]
          THEN IF k + 1 = Len(needle)
               THEN << >>
               ELSE kmp_scan_indices(haystack, needle, prefix, i + 1, k + 1)
          ELSE IF k > 0
               THEN kmp_scan_indices(haystack, needle, prefix, i, prefix[k])
               ELSE kmp_scan_indices(haystack, needle, prefix, i + 1, k)
     ELSE << >>)

\* the failure table a call of kmp_search builds (none on an early return)
kmp_search_prefix(haystack, needle) ==
    LET n == Len(haystack)
        m == Len(needle)
    IN  IF m = 0 \/ n < m
        THEN << >>
        ELSE kmp_prefix(needle, [x \in 1..m |-> 0], 1, 0)

RECURSIVE kmp_scan_lens(_, _, _, _, _)
\* the values the partial-match length k takes: at the successive
\* evaluations of "while i < n", and after the "k += 1" of a match
kmp_scan_lens(haystack, needle, prefix, i, k) ==
    << k >> \o
    (IF i < Len(haystack)
     THEN IF haystack[i + 1] = needle[k + 1]
          THEN IF k + 1 = Len(needle)
               THEN << k + 1 >>
               ELSE kmp_scan_lens(haystack, needle, prefix, i + 1, k + 1)
          ELSE IF k > 0
               THEN kmp_scan_lens(haystack, needle, prefix, i, prefix[k])
               ELSE kmp_scan_lens(haystack, needle, prefix, i + 1, k)
     ELSE << >>)

\* the partial-match lengths of a whole call of kmp_search
kmp_search_lens(haystack, needle) ==
    LET n == Len(haystack)
        m == Len(needle)
    IN  IF m = 0 \/ n < m
        THEN << >>
        ELSE kmp_scan_lens(haystack, needle,
                           kmp_search_prefix(haystack, needle), 0, 0)

\* the window indices visited by a whole call of kmp_search
kmp_search_indices(haystack, needle) ==
    LET n == Len(haystack)
        m == Len(needle)
    IN  IF m = 0 \/ n < m
        THEN << >>
        ELSE kmp_scan_indices(haystack, needle,
                              kmp_prefix(needle, [x \in 1..m |-> 0], 1, 0), 0, 0)

kmp_search(haystack, needle) ==
    LET n == Len(haystack)
        m == Len(needle)
    IN  IF m = 0 \/ n < m
        THEN NotFound
        ELSE kmp_scan(haystack, needle,
                      kmp_prefix(needle, [x \in 1..m |-> 0], 1, 0), 0, 0)

\* ------------------------------------------------------------------------
\* search/simd.rs
\* ------------------------------------------------------------------------
RECURSIVE simd_scan_first_byte_no_tail(_, _, _, _)
\* the scan without the check of the bytes left after the last full chunk
simd_scan_first_byte_no_tail(lanes, haystack, first_byte, i) ==
    IF i + lanes <= Len(haystack)
    THEN LET mask == {b \in 0..(lanes - 1) : haystack[i + b + 1] = first_byte}
         IN  IF mask # {}
             THEN i + MinOf(mask)
             ELSE simd_scan_first_byte_no_tail(lanes, haystack, first_byte,
                                               i + lanes)
    ELSE NotFound

RECURSIVE simd_scan_first_byte(_, _, _, _)
\* lanes is the const parameter N, i the loop variable (0 at the call)
simd_scan_first_byte(lanes, haystack, first_byte, i) ==
    IF i + lanes <= Len(haystack)
    THEN LET mask == {b \in 0..(lanes - 1) : haystack[i + b + 1] = first_byte}
         IN  IF mask # {}
             THEN i + MinOf(mask)
             ELSE simd_scan_first_byte(lanes, haystack, first_byte, i + lanes)
    ELSE LET rest == {p \in 0..(Len(haystack) - i - 1) :
                        haystack[i + p + 1] = first_byte}
         IN  IF rest = {} THEN NotFound ELSE i + MinOf(rest)

RECURSIVE simd_loop(_, _, _)
simd_loop(haystack, needle, search_start) ==
    IF search_start + Len(needle) <= Len(haystack)
    THEN LET offset == simd_scan_first_byte(SIMD_SIZE_BOOSTED,
                           Slice(haystack, search_start, Len(haystack)),
                           needle[1], 0)
             candidate_pos == search_start + offset
         IN  IF offset = NotFound THEN NotFound
             ELSE IF candidate_pos + Len(needle) > Len(haystack) THEN NotFound
             ELSE IF Slice(haystack, candidate_pos,
                           candidate_pos + Len(needle)) = needle
                  THEN candidate_pos
                  ELSE simd_loop(haystack, needle, candidate_pos + 1)
    ELSE NotFound

simd_search(haystack, needle) ==
    IF Len(needle) = 0 \/ Len(haystack) < Len(needle)
    THEN NotFound
    ELSE IF Len(needle) = 1
         THEN simd_scan_first_byte(SIMD_SIZE_BOOSTED, haystack, needle[1], 0)
         ELSE simd_loop(haystack, needle, 0)

\* ------------------------------------------------------------------------
\* search/simdx86_64.rs
\* ------------------------------------------------------------------------
\* no scalar fallback: the bytes after the last full block are not searched
x86_tail_skipped(haystack, needle, i) == NotFound

RECURSIVE x86_tail(_, _, _)
\* the scalar fallback loop over the remaining bytes
x86_tail(haystack, needle, i) ==
    IF i + Len(needle) <= Len(haystack)
    THEN IF Slice(haystack, i, i + Len(needle)) = needle
         THEN i
         ELSE x86_tail(haystack, needle, i + 1)
    ELSE NotFound

RECURSIVE x86_blocks_full_mask(_, _, _)
\* the block loop comparing the mask with all 16 bits instead of the low
\* needle.len() bits
x86_blocks_full_mask(haystack, needle, i) ==
    LET needle_buf == [k \in 1..X86_BLOCK |->
                         IF k <= Len(needle) THEN needle[k] ELSE 0]
        match_mask == 0..(X86_BLOCK - 1)
    IN  IF i + X86_BLOCK <= Len(haystack)
        THEN LET mask == {b \in 0..(X86_BLOCK - 1) :
                            haystack[i + b + 1] = needle_buf[b + 1]}
             IN  IF (mask \cap match_mask) = match_mask
                 THEN i
                 ELSE x86_blocks_full_mask(haystack, needle, i + 1)
        ELSE x86_tail(haystack, needle, i)

RECURSIVE x86_blocks(_, _, _)
\* the 16-byte block loop; a bitmask is the set of its set bit indices
x86_blocks(haystack, needle, i) ==
    LET needle_buf == [k \in 1..X86_BLOCK |->
                         IF k <= Len(needle) THEN needle[k] ELSE 0]
        match_mask == 0..(Len(needle) - 1)
    IN  IF i + X86_BLOCK <= Len(haystack)
        THEN LET mask == {b \in 0..(X86_BLOCK - 1) :
                            haystack[i + b + 1] = needle_buf[b + 1]}
             IN  IF (mask \cap match_mask) = match_mask
                 THEN i
                 ELSE x86_blocks(haystack, needle, i + 1)
        ELSE x86_tail(haystack, needle, i)

simd_search_x86_64(haystack, needle) ==
    IF Len(needle) = 0 \/ Len(haystack) < Len(needle)
    THEN NotFound
    ELSE IF Len(needle) > X86_BLOCK
         THEN simd_search(haystack, needle)
         ELSE x86_blocks(haystack, needle, 0)

\* the "match self.algo" dispatch of Finder::next and MmapFinder
Search(algo, search_area, needle) ==
    CASE algo = "Naive"     -> naive_search(search_area, needle)
      [] algo = "Bmh"       -> bmh_search(search_area, needle)
      [] algo = "Kmp"       -> kmp_search(search_area, needle)
      [] algo = "SimdX8664" -> simd_search_x86_64(search_area, needle)
      [] algo = "Simd"      -> simd_search(search_area, needle)

\* ------------------------------------------------------------------------
\* The byte source behind Finder.haystack (an implementor of io::Read).
\* data is the logical haystack, pos the number of bytes delivered so far,
\* chunk the read-chunk size (the most bytes one read delivers),
\* until_fail the number of read calls up to and including the one that
\* fails (0: the source never fails).
\* ------------------------------------------------------------------------
Source(data, chunk, until_fail) ==
    [data |-> data, chunk |-> chunk, pos |-> 0, until_fail |-> until_fail]

\* read(&mut buf) with buf.len() = req: n = -1 stands for Err(e)
SourceRead(src, req) ==
    IF src.until_fail = 1
    THEN [src |-> [src EXCEPT !.until_fail = 0], n |-> -1]
    ELSE LET avail == Len(src.data) - src.pos
             most == IF src.chunk < avail THEN src.chunk ELSE avail
             n == IF req < most THEN req ELSE most
         IN  [src |-> [src EXCEPT !.pos = @ + n,
                                  !.until_fail = IF @ > 1 THEN @ - 1 ELSE 0],
              n |-> n]

\* ------------------------------------------------------------------------
\* finder.rs: construction
\* ------------------------------------------------------------------------
Err(tag) == [tag |-> tag, obj |-> << >>]
Ok(obj) == [tag |-> "Ok", obj |-> << obj >>]

\* with_buffer_size without the empty-needle check
Finder_with_buffer_size_unchecked(haystack, needle, buffer_size, algo) ==
    IF Len(needle) > buffer_size THEN Err("BufferTooSmall")
    ELSE IF Len(needle) - 1 < 0 THEN Err("Panic")
    ELSE Ok([haystack |-> haystack,
             needle |-> needle,
             buffer |-> Zeros(buffer_size + (Len(needle) - 1)),
             haystack_pos |-> 0,
             buffer_pos |-> 0,
             buffer_fill_len |-> 0,
             algo |-> IF algo = NoAlgo THEN "Naive" ELSE algo,
             requested_buffer_size |-> buffer_size])

\* with_buffer_size that also refuses a buffer exactly as long as the needle
Finder_with_buffer_size_strict(haystack, needle, buffer_size, algo) ==
    IF Len(needle) = 0 THEN Err("EmptyNeedle")
    ELSE IF Len(needle) >= buffer_size THEN Err("BufferTooSmall")
    ELSE Ok([haystack |-> haystack,
             needle |-> needle,
             buffer |-> Zeros(buffer_size + (Len(needle) - 1)),
             haystack_pos |-> 0,
             buffer_pos |-> 0,
             buffer_fill_len |-> 0,
             algo |-> IF algo = NoAlgo THEN "Naive" ELSE algo,
             requested_buffer_size |-> buffer_size])

\* algo is an Algorithm for Some(a) and NoAlgo for None
Finder_with_buffer_size(haystack, needle, buffer_size, algo) ==
    IF Len(needle) = 0 THEN Err("EmptyNeedle")
    ELSE IF Len(needle) > buffer_size THEN Err("BufferTooSmall")
    ELSE IF Len(needle) - 1 < 0 THEN Err("Panic")   \* usize underflow
    ELSE LET requested_buffer_size == buffer_size
             buffer_size1 == buffer_size + (Len(needle) - 1)
         IN  Ok([haystack |-> haystack,
                 needle |-> needle,
                 buffer |-> Zeros(buffer_size1),
                 haystack_pos |-> 0,
                 buffer_pos |-> 0,
                 buffer_fill_len |-> 0,
                 algo |-> IF algo = NoAlgo THEN "Naive" ELSE algo,
                 requested_buffer_size |-> requested_buffer_size])

Finder_new(haystack, needle, algo) ==
    IF Len(needle) = 0 THEN Err("EmptyNeedle")
    ELSE IF Len(needle) > DEFAULT_BUF_SIZE THEN Err("BufferTooSmall")
    ELSE Finder_with_buffer_size(haystack, needle, DEFAULT_BUF_SIZE, algo)

\* with_algorithm dropping its algorithm argument
Finder_with_algorithm_default(haystack, needle, algo) ==
    IF Len(needle) = 0 THEN Err("EmptyNeedle")
    ELSE IF Len(needle) > DEFAULT_BUF_SIZE THEN Err("BufferTooSmall")
    ELSE Finder_with_buffer_size(haystack, needle, DEFAULT_BUF_SIZE, NoAlgo)

Finder_with_algorithm(haystack, needle, algo) ==
    IF Len(needle) = 0 THEN Err("EmptyNeedle")
    ELSE IF Len(needle) > DEFAULT_BUF_SIZE THEN Err("BufferTooSmall")
    ELSE Finder_with_buffer_size(haystack, needle, DEFAULT_BUF_SIZE, algo)

\* ------------------------------------------------------------------------
\* mmap_finder.rs: construction.  file is << >> when the path cannot be
\* opened or mapped and << bytes >> when it maps to the region bytes.
\* ------------------------------------------------------------------------
MmapFinder_new(file, needle) ==
    IF Len(needle) = 0 THEN Err("EmptyNeedle")
    ELSE IF file = << >> THEN Err("Io")
    ELSE Ok([mmap |-> file[1], needle |-> needle])

MmapFinder_from_mmap(mmap, needle) ==
    IF Len(needle) = 0 THEN Err("EmptyNeedle")
    ELSE Ok([mmap |-> mmap, needle |-> needle])

\* ------------------------------------------------------------------------
\* finder.rs: one iteration of the loop of Finder::next.
\* Each operator returns [f |-> the finder afterwards, ret |-> outcome]:
\* Continue (the iteration ends without returning; Fall: control goes on
\* inside the iteration), RNone, ROk(p) for Some(Ok(p)), RErr for
\* Some(Err(e)).
\* ------------------------------------------------------------------------
Continue == [kind |-> "Continue", pos |-> 0]
Fall == [kind |-> "Fall", pos |-> 0]
RNone == [kind |-> "None", pos |-> 0]
RErr == [kind |-> "Err", pos |-> 0]
ROk(p) == [kind |-> "Ok", pos |-> p]

\* buffer with the n bytes just read stored from index at on
Store(buffer, at, src_before, n) ==
    [k \in 1..Len(buffer) |->
        IF k > at /\ k <= at + n
        THEN src_before.data[src_before.pos + (k - at)]
        ELSE buffer[k]]

\* a refill without the early return on a short first read
Refill_no_short_return(f) ==
    LET f1 == [f EXCEPT !.haystack_pos = @ + f.buffer_pos,
                        !.buffer_fill_len = 0,
                        !.buffer_pos = 0]
        r == SourceRead(f1.haystack, Len(f1.buffer))
    IN  IF r.n = -1 THEN [f |-> [f1 EXCEPT !.haystack = r.src], ret |-> RErr]
        ELSE IF r.n = 0 THEN [f |-> [f1 EXCEPT !.haystack = r.src], ret |-> RNone]
        ELSE [f |-> [f1 EXCEPT !.haystack = r.src,
                               !.buffer = Store(@, 0, f1.haystack, r.n),
                               !.buffer_fill_len = r.n],
              ret |-> Fall]

\* lines 122-138: the buffer is exhausted, read from its start
Refill(f) ==
    LET f1 == [f EXCEPT !.haystack_pos = @ + f.buffer_pos,
                        !.buffer_fill_len = 0,
                        !.buffer_pos = 0]
        r == SourceRead(f1.haystack, Len(f1.buffer))
    IN  IF r.n = -1 THEN [f |-> [f1 EXCEPT !.haystack = r.src], ret |-> RErr]
        ELSE IF r.n = 0 THEN [f |-> [f1 EXCEPT !.haystack = r.src], ret |-> RNone]
        ELSE LET f2 == [f1 EXCEPT !.haystack = r.src,
                                  !.buffer = Store(@, 0, f1.haystack, r.n),
                                  !.buffer_fill_len = r.n]
             IN  IF f2.haystack_pos = 0 /\ r.n < Len(f2.needle)
                 THEN [f |-> f2, ret |-> RNone]
                 ELSE [f |-> f2, ret |-> Fall]

\* the search run over the whole rest of the buffer, stale bytes included
Found_past_fill(f) ==
    Search(f.algo, Slice(f.buffer, f.buffer_pos, Len(f.buffer)), f.needle)

\* lines 140-148
Found(f) ==
    Search(f.algo, Slice(f.buffer, f.buffer_pos, f.buffer_fill_len), f.needle)

\* a match step that resumes after the match instead of one byte on
MatchStep_no_overlap(f, i) ==
    LET match_pos == f.buffer_pos + i
    IN  [f |-> [f EXCEPT !.buffer_pos = match_pos + Len(f.needle)],
         ret |-> ROk(f.haystack_pos + match_pos)]

\* a match step that moves the base offset along with the cursor
MatchStep_base_moved(f, i) ==
    LET match_pos == f.buffer_pos + i
    IN  [f |-> [f EXCEPT !.buffer_pos = match_pos + 1,
                         !.haystack_pos = @ + i + 1],
         ret |-> ROk(f.haystack_pos + match_pos)]

\* lines 150-154
MatchStep(f, i) ==
    LET match_pos == f.buffer_pos + i
    IN  [f |-> [f EXCEPT !.buffer_pos = match_pos + 1],
         ret |-> ROk(f.haystack_pos + match_pos)]

\* a compaction that does not fold the discarded prefix into haystack_pos
Compact_no_fold(f) ==
    LET tail_len == Len(f.needle) - 1
    IN  [f EXCEPT !.buffer = [k \in 1..Len(f.buffer) |->
                                 IF k <= tail_len
                                 THEN f.buffer[f.buffer_fill_len - tail_len + k]
                                 ELSE f.buffer[k]],
                  !.buffer_fill_len = tail_len,
                  !.buffer_pos = 0]

\* a compaction that drains the discarded prefix out of the buffer, which
\* shrinks to the tail kept
Compact_drain(f) ==
    LET tail_len == Len(f.needle) - 1
    IN  [f EXCEPT !.buffer = [k \in 1..tail_len |->
                                 f.buffer[f.buffer_fill_len - tail_len + k]],
                  !.buffer_fill_len = tail_len,
                  !.buffer_pos = 0,
                  !.haystack_pos = @ + (Len(f.buffer) - tail_len)]

\* lines 159-167: buffer full, copy tail to start
Compact(f) ==
    LET tail_len == Len(f.needle) - 1
    IN  [f EXCEPT !.buffer = [k \in 1..Len(f.buffer) |->
                                 IF k <= tail_len
                                 THEN f.buffer[f.buffer_fill_len - tail_len + k]
                                 ELSE f.buffer[k]],
                  !.buffer_fill_len = tail_len,
                  !.buffer_pos = 0,
                  !.haystack_pos = @ + (Len(f.buffer) - tail_len)]

\* need-more path that compacts one byte before the buffer is full
NeedMore_compact_early(f) ==
    LET f1 == IF f.buffer_fill_len >= Len(f.buffer) - 1 THEN Compact(f) ELSE f
        r == SourceRead(f1.haystack, Len(f1.buffer) - f1.buffer_fill_len)
    IN  IF r.n = -1 THEN [f |-> [f1 EXCEPT !.haystack = r.src], ret |-> RErr]
        ELSE IF r.n = 0 THEN [f |-> [f1 EXCEPT !.haystack = r.src], ret |-> RNone]
        ELSE [f |-> [f1 EXCEPT !.haystack = r.src,
                               !.buffer = Store(@, f1.buffer_fill_len,
                                                f1.haystack, r.n),
                               !.buffer_fill_len = @ + r.n],
              ret |-> Continue]

\* need-more path that goes round the loop again after a read of 0 bytes
NeedMore_no_eof(f) ==
    LET f1 == IF f.buffer_fill_len >= Len(f.buffer) THEN Compact(f) ELSE f
        r == SourceRead(f1.haystack, Len(f1.buffer) - f1.buffer_fill_len)
    IN  IF r.n = -1 THEN [f |-> [f1 EXCEPT !.haystack = r.src], ret |-> RErr]
        ELSE [f |-> [f1 EXCEPT !.haystack = r.src,
                               !.buffer = Store(@, f1.buffer_fill_len,
                                                f1.haystack, r.n),
                               !.buffer_fill_len = @ + r.n],
              ret |-> Continue]

\* need-more path that empties the buffer when the read fails
NeedMore_drop_on_err(f) ==
    LET f1 == IF f.buffer_fill_len >= Len(f.buffer) THEN Compact(f) ELSE f
        r == SourceRead(f1.haystack, Len(f1.buffer) - f1.buffer_fill_len)
    IN  IF r.n = -1 THEN [f |-> [f1 EXCEPT !.haystack = r.src,
                                           !.buffer_fill_len = 0,
                                           !.buffer_pos = 0],
                          ret |-> RErr]
        ELSE IF r.n = 0 THEN [f |-> [f1 EXCEPT !.haystack = r.src], ret |-> RNone]
        ELSE [f |-> [f1 EXCEPT !.haystack = r.src,
                               !.buffer = Store(@, f1.buffer_fill_len,
                                                f1.haystack, r.n),
                               !.buffer_fill_len = @ + r.n],
              ret |-> Continue]

\* lines 157-172: need more data
NeedMore(f) ==
    LET f1 == IF f.buffer_fill_len >= Len(f.buffer) THEN Compact(f) ELSE f
        r == SourceRead(f1.haystack, Len(f1.buffer) - f1.buffer_fill_len)
    IN  IF r.n = -1 THEN [f |-> [f1 EXCEPT !.haystack = r.src], ret |-> RErr]
        ELSE IF r.n = 0 THEN [f |-> [f1 EXCEPT !.haystack = r.src], ret |-> RNone]
        ELSE [f |-> [f1 EXCEPT !.haystack = r.src,
                               !.buffer = Store(@, f1.buffer_fill_len,
                                                f1.haystack, r.n),
                               !.buffer_fill_len = @ + r.n],
              ret |-> Continue]

\* an advance of one byte whatever the window holds
Advance_by_one(f) ==
    [f |-> [f EXCEPT !.haystack_pos = @ + 1,
                     !.buffer_pos = @ + 1],
     ret |-> Continue]

\* an advance over the whole window, keeping no tail
Advance_whole_window(f) ==
    LET advance == f.buffer_fill_len - f.buffer_pos
    IN  [f |-> [f EXCEPT !.haystack_pos = @ + advance,
                         !.buffer_pos = @ + advance],
         ret |-> Continue]

\* lines 173-179: advance the window
Advance(f) ==
    LET tail_len == Len(f.needle) - 1
        advance == (f.buffer_fill_len - f.buffer_pos) - tail_len
    IN  [f |-> [f EXCEPT !.haystack_pos = @ + advance,
                         !.buffer_pos = @ + advance],
         ret |-> Continue]

\* the part of the iteration after the refill block
Scan(f) ==
    LET found == Found(f)
    IN  IF found # NotFound THEN MatchStep(f, found)
        ELSE IF f.buffer_pos + Len(f.needle) > f.buffer_fill_len
             THEN NeedMore(f)
             ELSE Advance(f)

\* which way the iteration leaves the loop body
Path(f) ==
    LET a == IF f.buffer_pos >= f.buffer_fill_len
             THEN Refill(f) ELSE [f |-> f, ret |-> Fall]
    IN  IF a.ret # Fall THEN "refill_return"
        ELSE IF Found(a.f) # NotFound THEN "match"
        ELSE IF a.f.buffer_pos + Len(a.f.needle) > a.f.buffer_fill_len
             THEN "need_more"
             ELSE "advance"

\* lines 121-180: one whole iteration of the loop
LoopIter(f) ==
    LET a == IF f.buffer_pos >= f.buffer_fill_len
             THEN Refill(f) ELSE [f |-> f, ret |-> Fall]
    IN  IF a.ret # Fall THEN a ELSE Scan(a.f)

RECURSIVE Finder_next(_)
\* lines 120-181: a whole call of next(), iterations up to its return
Finder_next(f) ==
    LET s == LoopIter(f)
    IN  IF s.ret = Continue THEN Finder_next(s.f) ELSE s

\* ------------------------------------------------------------------------
\* mmap_finder.rs: find_all and the iterator it returns
\* ------------------------------------------------------------------------
RSome(p) == [kind |-> "Some", pos |-> p]

MmapFinder_find_all(mf, algo) ==
    [haystack |-> mf.mmap, needle |-> mf.needle, algo |-> algo, pos |-> 0]

\* find_first searching the region from its second byte on
MmapFinder_find_first_skip(mf, algo) ==
    LET search_area == Slice(mf.mmap, 1, Len(mf.mmap))
    IN  Search(algo, search_area, mf.needle)

\* lines 86-96: the chosen matcher, once, over the whole region
MmapFinder_find_first(mf, algo) ==
    LET search_area == mf.mmap
    IN  Search(algo, search_area, mf.needle)

\* next() resuming after the whole match instead of one byte on
MmapFinderIter_next_no_overlap(it) ==
    IF it.pos >= Len(it.haystack) THEN [it |-> it, ret |-> RNone]
    ELSE LET search_area == Slice(it.haystack, it.pos, Len(it.haystack))
             found == Search(it.algo, search_area, it.needle)
         IN  IF found # NotFound
             THEN LET match_pos == it.pos + found
                  IN  [it |-> [it EXCEPT !.pos = match_pos + Len(it.needle)],
                       ret |-> RSome(match_pos)]
             ELSE [it |-> it, ret |-> RNone]

\* next() going back to the start of the region when it returns None
MmapFinderIter_next_rewind(it) ==
    IF it.pos >= Len(it.haystack)
    THEN [it |-> [it EXCEPT !.pos = 0], ret |-> RNone]
    ELSE LET search_area == Slice(it.haystack, it.pos, Len(it.haystack))
             found == Search(it.algo, search_area, it.needle)
         IN  IF found # NotFound
             THEN LET match_pos == it.pos + found
                  IN  [it |-> [it EXCEPT !.pos = match_pos + 1],
                       ret |-> RSome(match_pos)]
             ELSE [it |-> [it EXCEPT !.pos = 0], ret |-> RNone]

\* lines 115-138: it is the MmapFinderIter, ret what the call returns
MmapFinderIter_next(it) ==
    IF it.pos >= Len(it.haystack) THEN [it |-> it, ret |-> RNone]
    ELSE LET search_area == Slice(it.haystack, it.pos, Len(it.haystack))
             found == Search(it.algo, search_area, it.needle)
         IN  IF found # NotFound
             THEN LET match_pos == it.pos + found
                  IN  [it |-> [it EXCEPT !.pos = match_pos + 1],
                       ret |-> RSome(match_pos)]
             ELSE [it |-> it, ret |-> RNone]

\* ------------------------------------------------------------------------
\* hex.rs: decode.  A u8 is its code (b'0' = 48, b'A' = 65, b'a' = 97); a
\* Result is a record: tag "Ok" with the value v, or the tag of the
\* FromHexError with the fields c and index of InvalidHexCharacter.
\* ------------------------------------------------------------------------
HexOk(v) == [tag |-> "Ok", v |-> v, c |-> 0, index |-> 0]
InvalidHexCharacter(c, index) ==
    [tag |-> "InvalidHexCharacter", v |-> 0, c |-> c, index |-> index]
OddLength == [tag |-> "OddLength", v |-> 0, c |-> 0, index |-> 0]

\* u8 << 4 and u8 | u8
Shl4(x) == (x * 16) % 256
RECURSIVE BitOr(_, _)
BitOr(x, y) ==
    IF x = 0 THEN y
    ELSE IF y = 0 THEN x
    ELSE (IF x % 2 = 1 \/ y % 2 = 1 THEN 1 ELSE 0) + 2 * BitOr(x \div 2, y \div 2)

\* val giving b'A'..=b'F' the values 0..5
val_upper_from_zero(c, idx) ==
    IF c >= 65 /\ c <= 70 THEN HexOk(c - 65)
    ELSE IF c >= 97 /\ c <= 102 THEN HexOk(c - 97 + 10)
    ELSE IF c >= 48 /\ c <= 57 THEN HexOk(c - 48)
    ELSE InvalidHexCharacter(c, idx)

\* lines 10-20
val(c, idx) ==
    IF c >= 65 /\ c <= 70 THEN HexOk(c - 65 + 10)
    ELSE IF c >= 97 /\ c <= 102 THEN HexOk(c - 97 + 10)
    ELSE IF c >= 48 /\ c <= 57 THEN HexOk(c - 48)
    ELSE InvalidHexCharacter(c, idx)

RECURSIVE collect_pairs(_, _, _)
\* lines 64-67: chunks(2).enumerate().map(..).collect() from chunk i on,
\* acc the bytes collected so far; the first Err ends the collection
collect_pairs(hex, i, acc) ==
    IF 2 * i >= Len(hex) THEN HexOk(acc)
    ELSE LET hi == val(hex[2 * i + 1], 2 * i)
         IN  IF hi.tag # "Ok" THEN hi
             ELSE LET lo == val(hex[2 * i + 2], 2 * i + 1)
                  IN  IF lo.tag # "Ok" THEN lo
                      ELSE collect_pairs(hex, i + 1,
                                         Append(acc, BitOr(Shl4(hi.v), lo.v)))

\* try_from_hex looking at the length only after the complete pairs
try_from_hex_late_length(hex) ==
    LET r == collect_pairs(SubSeq(hex, 1, 2 * (Len(hex) \div 2)), 0, << >>)
    IN  IF r.tag # "Ok" THEN r
        ELSE IF Len(hex) % 2 # 0 THEN OddLength
        ELSE r

\* lines 58-68
try_from_hex(hex) ==
    IF Len(hex) % 2 # 0 THEN OddLength
    ELSE collect_pairs(hex, 0, << >>)

\* lines 5-7
decode(data) == try_from_hex(data)

\* ------------------------------------------------------------------------
\* main.rs: the number of worker threads and the buffer size of each,
\* from the memory limit and the size of the thread pool (usize values)
\* ------------------------------------------------------------------------
MaxOf2(a, b) == IF a >= b THEN a ELSE b

\* lines 188-196
threads_to_use(memory_limit, max_threads) ==
    IF memory_limit = 0 THEN 1
    ELSE IF memory_limit < max_threads THEN MaxOf2(1, memory_limit)
    ELSE max_threads

\* the share rounded up instead of down
per_thread_limit_ceil(memory_limit, threads) ==
    LET share == IF threads > 0
                 THEN (memory_limit + threads - 1) \div threads
                 ELSE memory_limit
    IN  IF share = 0 THEN 1 ELSE share

\* lines 201-208
per_thread_limit(memory_limit, threads) ==
    LET share == IF threads > 0 THEN memory_limit \div threads
                                ELSE memory_limit
    IN  IF share = 0 THEN 1 ELSE share

\* ------------------------------------------------------------------------
\* State
\* ------------------------------------------------------------------------
VARIABLES
    call,      \* the constructor call made: its name and arguments
    result,    \* the tag of the Result that call returned
    finder,    \* << >> or << the Finder built >>
    mfinder,   \* << >> or << the MmapFinder built >>
    last,      \* outcome of the latest loop iteration of Finder::next
    items,     \* what the calls of next() returned so far, in order
    miter,     \* << >> or << the MmapFinderIter made by find_all >>
    probe,     \* a matcher called on its own: arguments and return value
    first,     \* << >> or << what a call of MmapFinder::find_first returned >>
    items2,    \* what the calls of next() on a second finder or iterator
               \* (finder[2], miter[2]) returned so far, in order
    decoded,   \* a call of hex::decode: its argument and what it returned
    budget     \* the buffer budget main computes: its inputs and results

vars == << call, result, finder, mfinder, last, items, miter, probe,
           first, items2, decoded, budget >>

\* the variables of find_first, of a second instance and of hex::decode
others == << first, items2, decoded, budget >>

NotCalled == [kind |-> "New", pos |-> 0]
NoCall == [op |-> "none", needle |-> << >>, buffer_size |-> 0, algo |-> NoAlgo]
\* no matcher is being called on its own
NoProbe == [fn |-> "none", haystack |-> << >>, needle |-> << >>,
            ret |-> NotFound, trace |-> << >>, table |-> << >>,
            lens |-> << >>]
\* hex::decode has not been called
NoDecode == [input |-> << >>, tag |-> "none", bytes |-> << >>,
             c |-> 0, index |-> 0]
\* main has not computed its budget
NoBudget == [memory_limit |-> 0, max_threads |-> 0, threads_to_use |-> 0,
             per_thread_limit |-> 0, done |-> FALSE]
\* no find_first call, no second instance, no decode call, no budget
OthersIdle ==
    /\ first = << >>
    /\ items2 = << >>
    /\ decoded = NoDecode
    /\ budget = NoBudget

\* ------------------------------------------------------------------------
\* Inputs
\* ------------------------------------------------------------------------
Seqs(n) == UNION {[1..k -> Byte] : k \in 0..n}
Haystacks == Seqs(MaxHay)
Needles == {s \in Seqs(MaxNeedle) : Len(s) >= 1}
\* every read-chunk size from 1 byte up to the whole haystack
ChunkSizes(data) == 1..(IF Len(data) = 0 THEN 1 ELSE Len(data))
Sources == UNION {{Source(d, c, 0) : c \in ChunkSizes(d)} : d \in Haystacks}

\* ------------------------------------------------------------------------
\* Streaming: the state after a successful Finder::with_buffer_size, and
\* one action per way through an iteration of the loop of Finder::next
\* ------------------------------------------------------------------------
Init ==
    \E src \in Sources, needle \in Needles, bs \in 1..MaxBuf, algo \in Algorithm :
        LET r == Finder_with_buffer_size(src, needle, bs, algo)
        IN  /\ r.tag = "Ok"
            /\ call = [op |-> "with_buffer_size", needle |-> needle,
                       buffer_size |-> bs, algo |-> algo]
            /\ result = r.tag
            /\ finder = r.obj
            /\ mfinder = << >>
            /\ last = NotCalled
            /\ items = << >>
            /\ miter = << >>
            /\ probe = NoProbe
            /\ OthersIdle

NoneCount == Cardinality({i \in 1..Len(items) : items[i] = RNone})

\* the effect of one iteration on the state
Iterate ==
    LET s == LoopIter(finder[1])
    IN  /\ finder' = << s.f >>
        /\ last' = s.ret
        /\ items' = IF s.ret = Continue THEN items ELSE Append(items, s.ret)
        /\ UNCHANGED << call, result, mfinder, miter, probe, others >>

\* the refill block returns: end of data, a short first read or a failure
RefillReturn ==
    /\ finder # << >>
    /\ NoneCount < MaxNone
    /\ Path(finder[1]) = "refill_return"
    /\ Iterate

\* the matcher finds the needle: next() returns its position
Match ==
    /\ finder # << >>
    /\ NoneCount < MaxNone
    /\ Path(finder[1]) = "match"
    /\ Iterate

\* no match and too few bytes left: compact if full, then read
ReadMore ==
    /\ finder # << >>
    /\ NoneCount < MaxNone
    /\ Path(finder[1]) = "need_more"
    /\ Iterate

\* no match and enough bytes left: slide the window
AdvanceWindow ==
    /\ finder # << >>
    /\ NoneCount < MaxNone
    /\ Path(finder[1]) = "advance"
    /\ Iterate

Next == RefillReturn \/ Match \/ ReadMore \/ AdvanceWindow

Spec == Init /\ [][Next]_vars

\* ------------------------------------------------------------------------
\* Streaming over windows as wide as the vector matchers' blocks: a short
\* core of bytes between runs of a filler byte, so that the 16-byte block
\* loop of simd_search_x86_64 and the lane loop of simd_scan_first_byte run
\* ------------------------------------------------------------------------
\* a byte that occurs in no needle
Filler == 2
Pad(n) == [k \in 1..n |-> Filler]
PadBefore == {X86_BLOCK - 1, SIMD_SIZE_BOOSTED}
PadAfter == {0, SIMD_SIZE_BOOSTED}
LongHaystacks ==
    {Pad(a) \o w \o Pad(b) : a \in PadBefore, b \in PadAfter, w \in [1..2 -> Byte]}
LongNeedles == [1..1 -> Byte] \cup [1..2 -> Byte]
LongSources ==
    UNION {{Source(d, c, 0) : c \in {X86_BLOCK + 1, Len(d)}} : d \in LongHaystacks}

InitLong ==
    \E src \in LongSources, needle \in LongNeedles, algo \in Algorithm :
        LET r == Finder_with_buffer_size(src, needle, SIMD_SIZE_BOOSTED, algo)
        IN  /\ r.tag = "Ok"
            /\ call = [op |-> "with_buffer_size", needle |-> needle,
                       buffer_size |-> SIMD_SIZE_BOOSTED, algo |-> algo]
            /\ result = r.tag
            /\ finder = r.obj
            /\ mfinder = << >>
            /\ last = NotCalled
            /\ items = << >>
            /\ miter = << >>
            /\ probe = NoProbe
            /\ OthersIdle

InitWide == Init \/ InitLong

SpecWide == InitWide /\ [][Next]_vars

\* ------------------------------------------------------------------------
\* Streaming from a source one of whose reads fails: the read call number
\* until_fail returns Err(e), the calls before and after it succeed (a
\* transient failure such as ErrorKind::Interrupted or TimedOut)
\* ------------------------------------------------------------------------
FailSources ==
    UNION {{Source(d, c, u) : c \in ChunkSizes(d), u \in 1..MaxFail} :
           d \in Haystacks}
FailAlgorithms == {"Naive", "Simd"}

InitFail ==
    \E src \in FailSources, needle \in Needles, bs \in 1..MaxBuf,
       algo \in FailAlgorithms :
        LET r == Finder_with_buffer_size(src, needle, bs, algo)
        IN  /\ r.tag = "Ok"
            /\ call = [op |-> "with_buffer_size", needle |-> needle,
                       buffer_size |-> bs, algo |-> algo]
            /\ result = r.tag
            /\ finder = r.obj
            /\ mfinder = << >>
            /\ last = NotCalled
            /\ items = << >>
            /\ miter = << >>
            /\ probe = NoProbe
            /\ OthersIdle

SpecFail == InitFail /\ [][Next]_vars

\* ------------------------------------------------------------------------
\* Construction: every entry point, called once with arguments of all kinds
\* ------------------------------------------------------------------------
CtorNeedles ==
    Seqs(MaxNeedle) \cup {Zeros(DEFAULT_BUF_SIZE - 1), Zeros(DEFAULT_BUF_SIZE),
                          Zeros(DEFAULT_BUF_SIZE + 1)}
CtorBufferSizes == 0..MaxBuf \cup {DEFAULT_BUF_SIZE}
CtorSources == {Source(<< >>, 1, 0), Source(<< 0, 1 >>, 2, 0)}
CtorFiles == {<< >>, << << >> >>, << << 0, 1 >> >>}

InitCtor ==
    /\ call = NoCall
    /\ result = "none"
    /\ finder = << >>
    /\ mfinder = << >>
    /\ last = NotCalled
    /\ items = << >>
    /\ miter = << >>
    /\ probe = NoProbe
    /\ OthersIdle

Returned(c, r, f, m) ==
    /\ call' = c
    /\ result' = r.tag
    /\ finder' = f
    /\ mfinder' = m
    /\ UNCHANGED << last, items, miter, probe, others >>

CallNew ==
    \E src \in CtorSources, needle \in CtorNeedles, algo \in Algorithm \cup {NoAlgo} :
        LET r == Finder_new(src, needle, algo)
        IN  /\ call = NoCall
            /\ Returned([op |-> "new", needle |-> needle,
                         buffer_size |-> DEFAULT_BUF_SIZE, algo |-> algo],
                        r, r.obj, << >>)

CallWithBufferSize ==
    \E src \in CtorSources, needle \in CtorNeedles, bs \in CtorBufferSizes,
       algo \in Algorithm \cup {NoAlgo} :
        LET r == Finder_with_buffer_size(src, needle, bs, algo)
        IN  /\ call = NoCall
            /\ Returned([op |-> "with_buffer_size", needle |-> needle,
                         buffer_size |-> bs, algo |-> algo],
                        r, r.obj, << >>)

CallWithAlgorithm ==
    \E src \in CtorSources, needle \in CtorNeedles, algo \in Algorithm :
        LET r == Finder_with_algorithm(src, needle, algo)
        IN  /\ call = NoCall
            /\ Returned([op |-> "with_algorithm", needle |-> needle,
                         buffer_size |-> DEFAULT_BUF_SIZE, algo |-> algo],
                        r, r.obj, << >>)

CallMmapNew ==
    \E file \in CtorFiles, needle \in CtorNeedles :
        LET r == MmapFinder_new(file, needle)
        IN  /\ call = NoCall
            /\ Returned([op |-> "mmap_new", needle |-> needle,
                         buffer_size |-> 0, algo |-> NoAlgo],
                        r, << >>, r.obj)

CallFromMmap ==
    \E mmap \in Seqs(MaxNeedle), needle \in CtorNeedles :
        LET r == MmapFinder_from_mmap(mmap, needle)
        IN  /\ call = NoCall
            /\ Returned([op |-> "mmap_from_mmap", needle |-> needle,
                         buffer_size |-> 0, algo |-> NoAlgo],
                        r, << >>, r.obj)

NextCtor ==
    CallNew \/ CallWithBufferSize \/ CallWithAlgorithm \/ CallMmapNew
        \/ CallFromMmap

SpecCtor == InitCtor /\ [][NextCtor]_vars

\* ------------------------------------------------------------------------
\* The matchers called on their own: every window and needle within the
\* bounds, and windows around the widths of the vector loops (one block of
\* simd_search_x86_64, one chunk of simd_scan_first_byte) made of a short
\* core between runs of the filler byte
\* ------------------------------------------------------------------------
\* the numbers of filler bytes before and after the core: windows of about
\* one block and of about one chunk, the core at either end or inside
WinPads ==
    {<< X86_BLOCK - 1, 0 >>, << X86_BLOCK - 1, 1 >>, << 0, X86_BLOCK >>,
     << 1, X86_BLOCK >>,
     << SIMD_SIZE_BOOSTED - 2, 0 >>, << SIMD_SIZE_BOOSTED - 1, 0 >>,
     << SIMD_SIZE_BOOSTED - 1, 1 >>, << SIMD_SIZE_BOOSTED, 0 >>,
     << 0, SIMD_SIZE_BOOSTED >>,
     << SIMD_SIZE_BOOSTED - X86_BLOCK, X86_BLOCK >>}
SearchWindows ==
    Seqs(MaxWin) \cup
    {Pad(ab[1]) \o w \o Pad(ab[2]) : ab \in WinPads, w \in Seqs(MaxNeedle)}
\* needles over Byte (the empty one included), needles with the filler
\* byte, and needles of one block and of more than one block
SearchNeedles ==
    Seqs(MaxPat) \cup
    {<< Filler >>, << Filler, Filler >>} \cup
    UNION {{<< b, Filler >>,
            << b >> \o Pad(X86_BLOCK - 1),
            << b >> \o Pad(X86_BLOCK)} : b \in Byte}

\* the longest window handed to the matchers that scan byte by byte (bmh,
\* kmp, the 16-byte block matcher): a block and a core; the longer windows
\* are about the chunk width of simd_search
ScanLimit == X86_BLOCK + MaxWin

InitSearch ==
    \E haystack \in SearchWindows, needle \in SearchNeedles :
        /\ probe = [NoProbe EXCEPT !.haystack = haystack, !.needle = needle]
        /\ call = NoCall
        /\ result = "none"
        /\ finder = << >>
        /\ mfinder = << >>
        /\ last = NotCalled
        /\ items = << >>
        /\ miter = << >>
        /\ OthersIdle

\* the matcher fn returned ret (and visited the window indices trace,
\* with the table it built and the partial-match lengths it went through)
Searched(fn, ret, trace, table, lens) ==
    /\ probe' = [probe EXCEPT !.fn = fn, !.ret = ret, !.trace = trace,
                              !.table = table, !.lens = lens]
    /\ UNCHANGED << call, result, finder, mfinder, last, items, miter, others >>

CallNaiveSearch ==
    /\ probe.fn = "none"
    /\ call = NoCall
    /\ Searched("naive_search",
                naive_search(probe.haystack, probe.needle),
                << >>, << >>, << >>)

CallBmhSearch ==
    /\ probe.fn = "none"
    /\ call = NoCall
    /\ Len(probe.haystack) <= ScanLimit
    /\ Searched("bmh_search",
                bmh_search(probe.haystack, probe.needle),
                bmh_search_indices(probe.haystack, probe.needle),
                bmh_search_shift(probe.haystack, probe.needle), << >>)

CallKmpSearch ==
    /\ probe.fn = "none"
    /\ call = NoCall
    /\ Len(probe.haystack) <= ScanLimit
    /\ Searched("kmp_search",
                kmp_search(probe.haystack, probe.needle),
                kmp_search_indices(probe.haystack, probe.needle),
                kmp_search_prefix(probe.haystack, probe.needle),
                kmp_search_lens(probe.haystack, probe.needle))

CallSimdSearch ==
    /\ probe.fn = "none"
    /\ call = NoCall
    /\ Searched("simd_search",
                simd_search(probe.haystack, probe.needle),
                << >>, << >>, << >>)

CallSimdSearchX8664 ==
    /\ probe.fn = "none"
    /\ call = NoCall
    /\ Len(probe.haystack) <= ScanLimit
    /\ Searched("simd_search_x86_64",
                simd_search_x86_64(probe.haystack, probe.needle),
                << >>, << >>, << >>)

NextSearch ==
    CallNaiveSearch \/ CallBmhSearch \/ CallKmpSearch \/ CallSimdSearch
        \/ CallSimdSearchX8664

SpecSearch == InitSearch /\ [][NextSearch]_vars

\* ------------------------------------------------------------------------
\* Zero-copy search: the state after a successful MmapFinder::from_mmap,
\* one call of find_all, then calls of next() on the iterator
\* ------------------------------------------------------------------------
\* the resident regions: every short one, and regions of about one block
MmapPads == {<< X86_BLOCK - 1, 0 >>, << X86_BLOCK - 1, 1 >>, << 0, X86_BLOCK >>}
Regions ==
    Haystacks \cup
    {Pad(ab[1]) \o w \o Pad(ab[2]) : ab \in MmapPads, w \in [1..2 -> Byte]}
MmapNeedles == Needles \cup {<< Filler, Filler >>}

InitMmap ==
    \E mmap \in Regions, needle \in MmapNeedles :
        LET r == MmapFinder_from_mmap(mmap, needle)
        IN  /\ r.tag = "Ok"
            /\ call = [op |-> "mmap_from_mmap", needle |-> needle,
                       buffer_size |-> 0, algo |-> NoAlgo]
            /\ result = r.tag
            /\ finder = << >>
            /\ mfinder = r.obj
            /\ last = NotCalled
            /\ items = << >>
            /\ miter = << >>
            /\ probe = NoProbe
            /\ OthersIdle

FindAll ==
    \E algo \in Algorithm :
        /\ mfinder # << >>
        /\ miter = << >>
        /\ miter' = << MmapFinder_find_all(mfinder[1], algo) >>
        /\ UNCHANGED << call, result, finder, mfinder, last, items, probe, others >>

MmapNext ==
    /\ miter # << >>
    /\ NoneCount < MaxNone
    /\ LET s == MmapFinderIter_next(miter[1])
       IN  /\ miter' = << s.it >>
           /\ last' = s.ret
           /\ items' = Append(items, s.ret)
    /\ UNCHANGED << call, result, finder, mfinder, probe, others >>

\* a call of find_first, before, between or after the calls of next()
FindFirst ==
    \E algo \in Algorithm :
        /\ mfinder # << >>
        /\ first = << >>
        /\ first' = << [algo |-> algo,
                        ret |-> MmapFinder_find_first(mfinder[1], algo)] >>
        /\ UNCHANGED << call, result, finder, mfinder, last, items, miter,
                        probe, items2, decoded, budget >>

NextMmap == FindAll \/ MmapNext \/ FindFirst

SpecMmap == InitMmap /\ [][NextMmap]_vars

\* ------------------------------------------------------------------------
\* Two iterators made by find_all on one MmapFinder, advanced in any
\* interleaving: miter[1] (its items in items) and miter[2] (items2).
\* ------------------------------------------------------------------------
MaxRegion == 3

\* next() on iterator k writing the resume position into every iterator
MmapIters_next_shared_pos(its, k) ==
    LET s == MmapFinderIter_next(its[k])
    IN  [its |-> [j \in 1..Len(its) |-> [its[j] EXCEPT !.pos = s.it.pos]],
         ret |-> s.ret]

\* lines 105-110, 115-138: next(&mut self) on iterator k of its; pos is a
\* field of the iterator, haystack and needle are shared borrows
MmapIters_next(its, k) ==
    LET s == MmapFinderIter_next(its[k])
    IN  [its |-> [its EXCEPT ![k] = s.it], ret |-> s.ret]

PairRegions ==
    Seqs(MaxRegion) \cup {Pad(15) \o w : w \in [1..2 -> Byte]}

InitMmapPair ==
    \E mmap \in PairRegions, needle \in Needles :
        LET r == MmapFinder_from_mmap(mmap, needle)
        IN  /\ r.tag = "Ok"
            /\ call = [op |-> "mmap_from_mmap", needle |-> needle,
                       buffer_size |-> 0, algo |-> NoAlgo]
            /\ result = r.tag
            /\ finder = << >>
            /\ mfinder = r.obj
            /\ last = NotCalled
            /\ items = << >>
            /\ miter = << >>
            /\ probe = NoProbe
            /\ OthersIdle

NoneCountOf(its) == Cardinality({i \in 1..Len(its) : its[i].kind = "None"})

\* find_all called again on the same finder, whatever the iterators made
\* before have done
FindAllAgain ==
    \E algo \in Algorithm :
        /\ mfinder # << >>
        /\ Len(miter) < 2
        /\ miter' = Append(miter, MmapFinder_find_all(mfinder[1], algo))
        /\ UNCHANGED << call, result, finder, mfinder, last, items, probe,
                        others >>

NextOfFirst ==
    /\ Len(miter) >= 1
    /\ NoneCountOf(items) < MaxNone
    /\ LET s == MmapIters_next(miter, 1)
       IN  /\ miter' = s.its
           /\ last' = s.ret
           /\ items' = Append(items, s.ret)
    /\ UNCHANGED << call, result, finder, mfinder, probe, others >>

NextOfSecond ==
    /\ Len(miter) >= 2
    /\ NoneCountOf(items2) < MaxNone
    /\ LET s == MmapIters_next(miter, 2)
       IN  /\ miter' = s.its
           /\ last' = s.ret
           /\ items2' = Append(items2, s.ret)
    /\ UNCHANGED << call, result, finder, mfinder, items, probe, first,
                    decoded, budget >>

NextMmapPair == FindAllAgain \/ NextOfFirst \/ NextOfSecond

SpecMmapPair == InitMmapPair /\ [][NextMmapPair]_vars

\* ------------------------------------------------------------------------
\* Two streaming Finders, each over its own source, stepped in any
\* interleaving of whole next() calls: finder[1] (its items in items) and
\* finder[2] (items2). call holds the two constructor calls.
\* ------------------------------------------------------------------------

\* next() on finder k writing its base offset into every finder
Finders_next_shared_offset(fs, k) ==
    LET s == Finder_next(fs[k])
    IN  [fs |-> [j \in 1..Len(fs) |->
                    IF j = k THEN s.f
                    ELSE [fs[j] EXCEPT !.haystack_pos = s.f.haystack_pos]],
         ret |-> s.ret]

\* lines 20-29, 120-181: next(&mut self) on finder k of fs; haystack,
\* needle, buffer and the three counters are owned fields of the Finder
Finders_next(fs, k) ==
    LET s == Finder_next(fs[k])
    IN  [fs |-> [fs EXCEPT ![k] = s.f], ret |-> s.ret]

FirstCalls ==
    {[op |-> "with_buffer_size", haystack |-> Source(d, c, 0), needle |-> n,
      buffer_size |-> bs, algo |-> "Naive"] :
        d \in Seqs(MaxRegion), c \in 1..MaxRegion, n \in Needles,
        bs \in {1, MaxBuf}}
SecondCalls ==
    {[op |-> "with_buffer_size", haystack |-> Source(d, c, 0), needle |-> n,
      buffer_size |-> 2, algo |-> "Bmh"] :
        d \in {<< 1, 1, 1 >>}, c \in 1..2,
        n \in {<< 1 >>, << 1, 1 >>}}

Build(c) == Finder_with_buffer_size(c.haystack, c.needle, c.buffer_size, c.algo)

InitFinderPair ==
    \E c1 \in FirstCalls, c2 \in SecondCalls :
        /\ c1.haystack.chunk \in ChunkSizes(c1.haystack.data)
        /\ Build(c1).tag = "Ok"
        /\ Build(c2).tag = "Ok"
        /\ call = << c1, c2 >>
        /\ result = "Ok"
        /\ finder = Build(c1).obj \o Build(c2).obj
        /\ mfinder = << >>
        /\ last = NotCalled
        /\ items = << >>
        /\ miter = << >>
        /\ probe = NoProbe
        /\ OthersIdle

NextOfFirstFinder ==
    /\ Len(finder) = 2
    /\ NoneCountOf(items) < MaxNone
    /\ LET s == Finders_next(finder, 1)
       IN  /\ finder' = s.fs
           /\ last' = s.ret
           /\ items' = Append(items, s.ret)
    /\ UNCHANGED << call, result, mfinder, miter, probe, others >>

NextOfSecondFinder ==
    /\ Len(finder) = 2
    /\ NoneCountOf(items2) < MaxNone
    /\ LET s == Finders_next(finder, 2)
       IN  /\ finder' = s.fs
           /\ last' = s.ret
           /\ items2' = Append(items2, s.ret)
    /\ UNCHANGED << call, result, mfinder, miter, items, probe, first,
                    decoded, budget >>

NextFinderPair == NextOfFirstFinder \/ NextOfSecondFinder

SpecFinderPair == InitFinderPair /\ [][NextFinderPair]_vars

\* ------------------------------------------------------------------------
\* hex::decode called on every input of up to MaxHex bytes over the bytes
\* at and next to the edges of the three digit ranges: / 0 9 : @ A F G
\* ` a f g, and a byte that is not ASCII
\* ------------------------------------------------------------------------
MaxHex == 4
HexBytes == {47, 48, 57, 58, 64, 65, 70, 71, 96, 97, 102, 103, 195}
HexInputs == UNION {[1..n -> HexBytes] : n \in 0..MaxHex}

InitHex ==
    \E data \in HexInputs :
        /\ call = NoCall
        /\ result = "none"
        /\ finder = << >>
        /\ mfinder = << >>
        /\ last = NotCalled
        /\ items = << >>
        /\ miter = << >>
        /\ probe = NoProbe
        /\ first = << >>
        /\ items2 = << >>
        /\ decoded = [NoDecode EXCEPT !.input = data]
        /\ budget = NoBudget

CallDecode ==
    /\ decoded.tag = "none"
    /\ LET r == decode(decoded.input)
       IN  decoded' = [input |-> decoded.input, tag |-> r.tag,
                       bytes |-> IF r.tag = "Ok" THEN r.v ELSE << >>,
                       c |-> r.c, index |-> r.index]
    /\ UNCHANGED << call, result, finder, mfinder, last, items, miter, probe,
                    first, items2, budget >>

NextHex == CallDecode

SpecHex == InitHex /\ [][NextHex]_vars

\* ------------------------------------------------------------------------
\* The budget computed at the start of main, for every memory limit up to
\* MaxMemory and a few large ones, and every pool of 1..MaxThreads threads
\* ------------------------------------------------------------------------
MaxMemory == 12
MaxThreads == 8
MemoryLimits == 0..MaxMemory \cup {100, 8192, 1000000000}
ThreadCounts == 1..MaxThreads

InitBudget ==
    \E ml \in MemoryLimits, mt \in ThreadCounts :
        /\ call = NoCall
        /\ result = "none"
        /\ finder = << >>
        /\ mfinder = << >>
        /\ last = NotCalled
        /\ items = << >>
        /\ miter = << >>
        /\ probe = NoProbe
        /\ first = << >>
        /\ items2 = << >>
        /\ decoded = NoDecode
        /\ budget = [NoBudget EXCEPT !.memory_limit = ml, !.max_threads = mt]

ComputeBudget ==
    /\ ~budget.done
    /\ LET t == threads_to_use(budget.memory_limit, budget.max_threads)
       IN  budget' = [budget EXCEPT
                         !.threads_to_use = t,
                         !.per_thread_limit = per_thread_limit(budget.memory_limit, t),
                         !.done = TRUE]
    /\ UNCHANGED << call, result, finder, mfinder, last, items, miter, probe,
                    first, items2, decoded >>

NextBudget == ComputeBudget

SpecBudget == InitBudget /\ [][NextBudget]_vars

\* ------------------------------------------------------------------------
\* Vocabulary of the properties
\* ------------------------------------------------------------------------
F == finder[1]
Hay == F.haystack.data

\* the offsets at which needle n occurs in haystack h
Occurrences(h, n) ==
    {p \in 0..(Len(h) - Len(n)) : \A j \in 1..Len(n) : h[p + j] = n[j]}

RECURSIVE Ascending(_)
Ascending(S) ==
    IF S = {} THEN << >> ELSE << MinOf(S) >> \o Ascending(S \ {MinOf(S)})

Ended == \E i \in 1..Len(items) : items[i] = RNone
EndIndex == MinOf({i \in 1..Len(items) : items[i] = RNone} \cup {Len(items) + 1})
\* what iterating the finder to its end yielded
Yielded == SubSeq(items, 1, EndIndex - 1)
PositionsOf(seq) == [i \in 1..Len(seq) |-> seq[i].pos]
AllOk(seq) == \A i \in 1..Len(seq) : seq[i].kind = "Ok"

RECURSIVE Collect(_)
\* the items a finder yields when iterated from state f to its first None
Collect(f) ==
    LET s == Finder_next(f)
    IN  IF s.ret = RNone THEN << >> ELSE << s.ret >> \o Collect(s.f)

\* a new finder over the same bytes and needle with the same requested
\* buffer size, fed in reads of at most chunk bytes and searching with algo
Fresh(chunk, algo) ==
    Finder_with_buffer_size(Source(Hay, chunk, 0), F.needle,
                            F.requested_buffer_size, algo).obj[1]

\* ------------------------------------------------------------------------
\* Properties of the streaming Finder (specification Spec)
\* ------------------------------------------------------------------------

\* C1: chunk-size invariance - for a fixed haystack, needle, buffer size and
\* algorithm, iterating the finder to its end yields the same positions
\* under every read-chunk size from 1 byte up to the whole haystack.
C1_ChunkInvariance ==
    Ended => \A c \in ChunkSizes(Hay) : Collect(Fresh(c, F.algo)) = Yielded

\* C2: soundness - every Ok(p) yielded is the offset of a real occurrence:
\* the haystack bytes p..p+needle.len() equal the needle.
C2_Soundness ==
    \A i \in 1..Len(items) :
        items[i].kind = "Ok" => items[i].pos \in Occurrences(Hay, F.needle)

\* C3: no lost and no duplicated match - once the finder has ended, every
\* offset at which the needle occurs has been yielded exactly once.
C3_NoLostNoDuplicate ==
    Ended => \A p \in Occurrences(Hay, F.needle) :
                Cardinality({i \in 1..Len(Yielded) : Yielded[i] = ROk(p)}) = 1

\* C4: cross-algorithm equivalence - under the same haystack, needle, buffer
\* size and read chunking the finder yields the identical ordered item list
\* whichever algorithm is selected.
C4_CrossAlgorithm ==
    Ended => \A a \in Algorithm : Collect(Fresh(F.haystack.chunk, a)) = Yielded

\* an ended run of SimdX8664 whose matches lay in windows of 16 bytes or
\* more (the block loop ran) and beyond the first buffer
C4_Witness ==
    /\ Ended
    /\ F.algo = "SimdX8664"
    /\ Len(Hay) > Len(F.buffer)
    /\ Len(F.buffer) >= SIMD_SIZE_BOOSTED
    /\ Len(Yielded) >= 2

\* C5: the positions yielded by one finder are strictly increasing.
C5_StrictlyIncreasing ==
    \A i, j \in 1..Len(items) :
        (i < j /\ items[i].kind = "Ok" /\ items[j].kind = "Ok")
            => items[i].pos < items[j].pos

C5_Witness ==
    /\ Len(items) >= 3
    /\ items[1].kind = "Ok" /\ items[2].kind = "Ok" /\ items[3].kind = "Ok"
    /\ Len(Hay) > Len(F.buffer)
    /\ F.haystack.chunk < Len(F.buffer)

\* C6: when the source delivers the whole haystack in one read that fits
\* the buffer, the finder yields exactly the offsets of all occurrences, in
\* increasing order, overlapping occurrences included.
SingleRead == F.haystack.chunk >= Len(Hay) /\ Len(Hay) <= Len(F.buffer)

C6_SingleRead ==
    (SingleRead /\ Ended)
        => /\ AllOk(Yielded)
           /\ PositionsOf(Yielded) = Ascending(Occurrences(Hay, F.needle))

C6_Witness ==
    /\ SingleRead /\ Ended
    /\ Len(F.needle) = 2
    /\ PositionsOf(Yielded) = << 0, 1, 2 >>

\* C7: buffer-boundary scenario - with requested buffer size B and a
\* haystack of B-2 filler bytes (not occurring in the needle) followed by
\* the needle, exactly one match is yielded, at B-2, under every chunking.
BoundaryScenario ==
    LET B == F.requested_buffer_size
    IN  /\ B >= 2
        /\ Len(Hay) = (B - 2) + Len(F.needle)
        /\ \E filler \in Byte :
             /\ \A j \in 1..Len(F.needle) : F.needle[j] # filler
             /\ Hay = [k \in 1..(B - 2) |-> filler] \o F.needle

C7_BufferBoundary ==
    (BoundaryScenario /\ Ended)
        => Yielded = << ROk(F.requested_buffer_size - 2) >>

\* C8: a finder over a haystack shorter than the needle (the empty haystack
\* included) yields no item: every call of next() returns None.
C8_ShortHaystack ==
    Len(Hay) < Len(F.needle)
        => /\ \A i \in 1..Len(items) : items[i] = RNone
           /\ last.kind \notin {"Ok", "Err"}

C8_Witness ==
    /\ Len(Hay) < Len(F.needle)
    /\ Len(Hay) >= 1
    /\ F.algo = "Kmp"
    /\ Len(items) = MaxNone

\* C11: exhaustion is permanent - once a call of next() has returned None,
\* every later call of next() on that finder returns None as well.
C11_ExhaustionPermanent ==
    \A i, j \in 1..Len(items) :
        (i < j /\ items[i] = RNone) => items[j] = RNone

\* C12: a read failure is surfaced as a single Err item and the finder is
\* terminal afterwards - once next() has returned Some(Err(e)), no later
\* iteration reads bytes from the source and no later call of next()
\* returns a match or another error.
ErrSeen == \E i \in 1..Len(items) : items[i] = RErr

C12_ErrTerminal ==
    [][ErrSeen => /\ finder'[1].haystack.pos = finder[1].haystack.pos
                  /\ last'.kind \notin {"Ok", "Err"}]_vars

\* C13: bounded memory - the buffer capacity of a finder is
\* max(requested, needle.len()) + (needle.len() - 1), which is
\* requested + needle.len() - 1, from construction on and after every
\* iteration of next().
MaxOf(a, b) == IF a > b THEN a ELSE b

C13_BoundedMemory ==
    /\ Len(F.buffer) =
         MaxOf(F.requested_buffer_size, Len(F.needle)) + (Len(F.needle) - 1)
    /\ Len(F.buffer) = F.requested_buffer_size + Len(F.needle) - 1
    /\ F.requested_buffer_size = call.buffer_size
    /\ F.buffer_fill_len <= Len(F.buffer)

\* a run that read more bytes than the buffer holds, in reads smaller than
\* the buffer, and has just compacted the buffer and read into it again
C13_Witness ==
    /\ F.haystack.pos > Len(F.buffer)
    /\ F.haystack.chunk < Len(F.buffer)
    /\ Len(F.needle) = MaxNeedle
    /\ last = Continue
    /\ F.buffer_pos = 0
    /\ F.buffer_fill_len > Len(F.needle) - 1

\* ------------------------------------------------------------------------
\* Properties of construction (specification SpecCtor)
\* ------------------------------------------------------------------------
FinderCtors == {"new", "with_buffer_size", "with_algorithm"}
MmapCtors == {"mmap_new", "mmap_from_mmap"}

\* C9: every construction entry point rejects an empty needle with its
\* EmptyNeedle error, and no finder object is produced.
C9_EmptyNeedleRejected ==
    (call.op \in FinderCtors \cup MmapCtors /\ call.needle = << >>)
        => /\ result = "EmptyNeedle"
           /\ finder = << >>
           /\ mfinder = << >>

C9_Witness ==
    /\ call.op = "with_buffer_size"
    /\ call.needle = << >>
    /\ call.buffer_size > 0
    /\ result = "EmptyNeedle"

\* C10: with a non-empty needle, with_buffer_size returns BufferTooSmall
\* exactly when needle.len() > buffer_size, and new / with_algorithm exactly
\* when needle.len() > DEFAULT_BUF_SIZE; the call otherwise returns a finder
\* (it returns a value in every case, it does not panic).
C10_BufferTooSmall ==
    (call.op \in FinderCtors /\ call.needle # << >>)
        => LET limit == IF call.op = "with_buffer_size"
                        THEN call.buffer_size ELSE DEFAULT_BUF_SIZE
           IN  /\ (result = "BufferTooSmall") <=> (Len(call.needle) > limit)
               /\ result \in {"Ok", "BufferTooSmall"}
               /\ (result = "Ok") <=> (finder # << >>)

C10_Witness ==
    /\ call.op = "with_buffer_size"
    /\ Len(call.needle) = call.buffer_size
    /\ call.buffer_size = MaxNeedle
    /\ result = "Ok"
    /\ Len(finder[1].buffer) = 2 * call.buffer_size - 1

\* ------------------------------------------------------------------------
\* Properties of the matchers (specification SpecSearch)
\* ------------------------------------------------------------------------
\* the smallest offset at which needle n occurs in window h, if any
FirstOccurrence(h, n) ==
    IF Occurrences(h, n) = {} THEN NotFound ELSE MinOf(Occurrences(h, n))

\* C14: naive_search with a non-empty needle returns Some(i) for the
\* smallest i with window[i..i+needle.len()] = needle, and None exactly
\* when there is no such index.
C14_NaiveLeftmost ==
    (probe.fn = "naive_search" /\ probe.needle # << >>)
        => /\ probe.ret = FirstOccurrence(probe.haystack, probe.needle)
           /\ (probe.ret = NotFound)
                  <=> (Occurrences(probe.haystack, probe.needle) = {})

\* the needle occurs more than once and first at the last start index that
\* leaves room for a second, overlapping occurrence
C14_Witness ==
    /\ probe.fn = "naive_search"
    /\ Len(probe.needle) >= 2
    /\ probe.ret >= 1
    /\ Cardinality(Occurrences(probe.haystack, probe.needle)) >= 2
    /\ Len(probe.haystack) - Len(probe.needle)
           \in Occurrences(probe.haystack, probe.needle)

\* C15: bmh_search returns what naive_search returns for every window and
\* every non-empty needle (the bad-character skips never jump over the
\* leftmost occurrence).
C15_BmhEqualsNaive ==
    (probe.fn = "bmh_search" /\ probe.needle # << >>)
        => probe.ret = naive_search(probe.haystack, probe.needle)

\* a match found after at least one skip, by a needle with a repeated byte
C15_Witness ==
    /\ probe.fn = "bmh_search"
    /\ Len(probe.needle) >= 3
    /\ probe.needle[1] = probe.needle[Len(probe.needle)]
    /\ probe.ret >= 2

\* C16: kmp_search returns what naive_search returns for every window and
\* every non-empty needle, and its window index never decreases during
\* the scan.
NonDecreasing(seq) == \A a \in 1..(Len(seq) - 1) : seq[a] <= seq[a + 1]

C16_KmpEqualsNaive ==
    (probe.fn = "kmp_search" /\ probe.needle # << >>)
        => /\ probe.ret = naive_search(probe.haystack, probe.needle)
           /\ NonDecreasing(probe.trace)

\* a match found after a fallback through the table (the index stood
\* still for a step) with a non-zero table entry
C16_Witness ==
    /\ probe.fn = "kmp_search"
    /\ Len(probe.needle) >= 3
    /\ probe.ret >= 1
    /\ \E a \in 1..(Len(probe.trace) - 1) :
          probe.trace[a] = probe.trace[a + 1] /\ probe.trace[a] >= 2

\* C17: simd_search returns what naive_search returns for every window
\* length (shorter than, equal to, and not a multiple of the lane width)
\* and every non-empty needle, single-byte needles included.
C17_SimdEqualsNaive ==
    (probe.fn = "simd_search" /\ probe.needle # << >>)
        => probe.ret = naive_search(probe.haystack, probe.needle)

\* a needle of two bytes found in the tail after a full chunk, in a window
\* whose length is not a multiple of the lane width
C17_Witness ==
    /\ probe.fn = "simd_search"
    /\ Len(probe.needle) = 2
    /\ Len(probe.haystack) > SIMD_SIZE_BOOSTED
    /\ Len(probe.haystack) % SIMD_SIZE_BOOSTED # 0
    /\ probe.ret >= SIMD_SIZE_BOOSTED

\* C18: simd_search_x86_64 returns what naive_search returns for every
\* window and every non-empty needle; for a needle longer than 16 bytes it
\* returns exactly what simd_search returns.
C18_X86EqualsNaive ==
    (probe.fn = "simd_search_x86_64" /\ probe.needle # << >>)
        => /\ probe.ret = naive_search(probe.haystack, probe.needle)
           /\ Len(probe.needle) > X86_BLOCK
                  => probe.ret = simd_search(probe.haystack, probe.needle)

\* a needle of at most 16 bytes found among the last 15 bytes of a window
\* of more than one block, after the block loop rejected every block
C18_Witness ==
    /\ probe.fn = "simd_search_x86_64"
    /\ Len(probe.needle) = 2
    /\ Len(probe.haystack) > X86_BLOCK
    /\ probe.ret > Len(probe.haystack) - X86_BLOCK

\* C19: each of the five matchers returns None when the needle is empty
\* and when the needle is longer than the window, the empty window
\* included.
C19_DegenerateInputs ==
    (probe.fn # "none"
       /\ (probe.needle = << >> \/ Len(probe.needle) > Len(probe.haystack)))
        => probe.ret = NotFound

C19_Witness ==
    /\ probe.fn = "naive_search"
    /\ probe.needle = << >>
    /\ Len(probe.haystack) >= 1
    /\ probe.ret = NotFound

\* ------------------------------------------------------------------------
\* Properties of the zero-copy finder (specification SpecMmap)
\* ------------------------------------------------------------------------
\* C20: find_all yields, under every algorithm, exactly the offsets at
\* which the needle occurs in the region, each once, in strictly
\* increasing order, overlapping occurrences included.
C20_FindAll ==
    miter # << >>
        => LET occ == Occurrences(mfinder[1].mmap, mfinder[1].needle)
           IN  /\ \A i \in 1..Len(items) :
                    items[i].kind = "Some" => items[i].pos \in occ
               /\ \A i, j \in 1..Len(items) :
                    (i < j /\ items[i].kind = "Some" /\ items[j].kind = "Some")
                        => items[i].pos < items[j].pos
               /\ Ended => /\ PositionsOf(Yielded) = Ascending(occ)
                            /\ \A i \in 1..Len(items) :
                                  i >= EndIndex => items[i] = RNone

\* an iteration to its end by the block matcher over a region longer than
\* a block, which yielded two occurrences that overlap
C20_Witness ==
    /\ miter # << >>
    /\ miter[1].algo = "SimdX8664"
    /\ Len(miter[1].haystack) > X86_BLOCK
    /\ Len(miter[1].needle) = 2
    /\ Ended
    /\ \E i \in 1..(Len(Yielded) - 1) : Yielded[i + 1].pos = Yielded[i].pos + 1

\* C21: find_first(algorithm) is the first item of find_all(algorithm) on
\* the same finder: the same position when find_all yields one, and None
\* exactly when the first next() of find_all returns None.
C21_FindFirstIsFirstOfFindAll ==
    (/\ first # << >>
     /\ miter # << >>
     /\ miter[1].algo = first[1].algo
     /\ Len(items) >= 1)
        => /\ items[1] = (IF first[1].ret = NotFound THEN RNone
                                                     ELSE RSome(first[1].ret))
           /\ (first[1].ret = NotFound) <=> (items[1] = RNone)

\* find_first and the first next() of find_all, both with the 64-lane
\* matcher, found an occurrence that lies past the first byte of a region
\* longer than a 16-byte block
C21_Witness ==
    /\ first # << >>
    /\ miter # << >>
    /\ miter[1].algo = "Simd"
    /\ first[1].algo = "Simd"
    /\ Len(mfinder[1].mmap) > X86_BLOCK
    /\ Len(items) >= 1
    /\ items[1].kind = "Some"
    /\ first[1].ret > 0

\* the iterator after n calls of next() with nothing else running, and what
\* those calls returned
RECURSIVE DrivenAlone(_, _)
DrivenAlone(it, n) ==
    IF n = 0 THEN [it |-> it, out |-> << >>]
    ELSE LET s == MmapFinderIter_next(it)
             r == DrivenAlone(s.it, n - 1)
         IN  [it |-> r.it, out |-> << s.ret >> \o r.out]

ItemsOf(k) == IF k = 1 THEN items ELSE items2

\* C22: every call of find_all starts at position 0, and iterators made
\* from one MmapFinder and advanced in any interleaving each return what
\* they return when driven alone: the same items in the same order, and
\* the same resume position for the calls still to come.
C22_FindAllRestartable ==
    \A k \in 1..Len(miter) :
        LET fresh == [haystack |-> mfinder[1].mmap,
                      needle |-> mfinder[1].needle,
                      algo |-> miter[k].algo, pos |-> 0]
            alone == DrivenAlone(fresh, Len(ItemsOf(k)))
        IN  /\ Len(ItemsOf(k)) = 0 => miter[k].pos = 0
            /\ ItemsOf(k) = alone.out
            /\ miter[k] = alone.it

\* the second iterator was made after the first had moved on, both ran to
\* their end yielding two items each, and their calls were interleaved
\* (the first iterator returned its None only after the second yielded)
C22_Witness ==
    /\ Len(miter) = 2
    /\ miter[1].algo # miter[2].algo
    /\ Len(items) >= 3
    /\ Len(items2) >= 3
    /\ items[2].kind = "Some"
    /\ items2[2].kind = "Some"
    /\ items[3] = RNone
    /\ items2[3] = RNone
    /\ last = RNone
    /\ NoneCountOf(items) = 1
    /\ NoneCountOf(items2) = 1

\* the part of the region an iterator has still to search
Remaining(it) == Slice(it.haystack, it.pos, Len(it.haystack))
SomeCount == Cardinality({i \in 1..Len(items) : items[i].kind = "Some"})

\* at most region.len() - needle.len() + 1 items (none when the region is
\* shorter than the needle), so that the call after that many has returned
\* None at the latest, and nothing but None after the first None; the
\* resume position never passes the end of the region
C23_Bounded ==
    miter # << >>
        => LET n == Len(miter[1].haystack) - Len(miter[1].needle) + 1
               most == IF n > 0 THEN n ELSE 0
           IN  /\ SomeCount <= most
               /\ Len(items) > most => Ended
               /\ miter[1].pos <= Len(miter[1].haystack)
               /\ \A i, j \in 1..Len(items) :
                     (i < j /\ items[i] = RNone) => items[j] = RNone

\* a call of next() made when the remaining region is shorter than the
\* needle or holds no occurrence returns None and leaves the iterator as
\* it was; every other call moves the resume position forward
C23_NoneWhenExhausted ==
    (miter # << >> /\ items' # items)
        => IF \/ Len(Remaining(miter[1])) < Len(miter[1].needle)
              \/ Occurrences(Remaining(miter[1]), miter[1].needle) = {}
           THEN last' = RNone /\ miter' = miter
           ELSE last'.kind = "Some" /\ miter'[1].pos > miter[1].pos

\* C23: a find_all iterator terminates on a finite region: next() returns
\* None once the remaining region (from the resume position) is shorter
\* than the needle or holds no occurrence, and otherwise moves the resume
\* position forward, which the end of the region bounds; at most
\* region.len() - needle.len() + 1 items are yielded, so the call after
\* those has returned None; after the first None every later next()
\* returns None.
C23_FindAllTerminates ==
    []C23_Bounded /\ [][C23_NoneWhenExhausted]_vars

\* an iterator over the region 0000 with needle 0 yielded the most items a
\* region allows, one per byte, then returned None twice
C23_Witness ==
    /\ miter # << >>
    /\ Len(miter[1].haystack) = MaxHay
    /\ Len(miter[1].needle) = 1
    /\ SomeCount = Len(miter[1].haystack)
    /\ NoneCount = MaxNone
    /\ miter[1].pos = Len(miter[1].haystack)

\* the finder after n calls of next() with nothing else running, and what
\* those calls returned
RECURSIVE RunAlone(_, _)
RunAlone(f, n) ==
    IF n = 0 THEN [f |-> f, out |-> << >>]
    ELSE LET s == Finder_next(f)
             r == RunAlone(s.f, n - 1)
         IN  [f |-> r.f, out |-> << s.ret >> \o r.out]

\* C24: two streaming Finders over their own sources, stepped in any
\* interleaving of next() calls, each return what they return when run
\* alone, and each is left with the needle, buffer, cursor, fill and base
\* offset it has when run alone.
C24_FindersIndependent ==
    Len(finder) = 2
        => \A k \in 1..2 :
              LET alone == RunAlone(Build(call[k]).obj[1], Len(ItemsOf(k)))
              IN  /\ ItemsOf(k) = alone.out
                  /\ finder[k] = alone.f

\* both finders were advanced in turn (the second one last), both found
\* a match, and the first has reached its end with a window that moved
C24_Witness ==
    /\ Len(finder) = 2
    /\ Len(items) >= 2
    /\ Len(items2) >= 2
    /\ \E i \in 1..Len(items) : items[i].kind = "Ok"
    /\ \E i \in 1..Len(items2) : items2[i].kind = "Ok"
    /\ items[Len(items)] = RNone
    /\ finder[1].haystack_pos > 0
    /\ finder[2].haystack_pos > 0
    /\ finder[1].haystack_pos # finder[2].haystack_pos
    /\ last = items2[Len(items2)]
    /\ last.kind = "Ok"

\* what a constructor call hands back: the tag of its Result and the finder
Outcome(r) == << r.tag, r.obj >>
\* the sources the constructor call made may have been given
GivenSources ==
    {src \in CtorSources : finder = << >> \/ finder[1].haystack = src}

\* C25: the three streaming constructors agree.  new(h, n, None) returns
\* what new(h, n, Some(Naive)) returns; with_algorithm(h, n, a) returns
\* what new(h, n, Some(a)) and with_buffer_size(h, n, DEFAULT_BUF_SIZE,
\* Some(a)) return, the same finder or the same error; DEFAULT_BUF_SIZE is
\* 8192.
C25_ConstructorsAgree ==
    /\ DEFAULT_BUF_SIZE = 8192
    /\ (call.op = "new" /\ call.algo = NoAlgo)
          => \A src \in GivenSources :
                << result, finder >> = Outcome(Finder_new(src, call.needle, "Naive"))
    /\ call.op = "with_algorithm"
          => \A src \in GivenSources :
                /\ << result, finder >>
                      = Outcome(Finder_new(src, call.needle, call.algo))
                /\ << result, finder >>
                      = Outcome(Finder_with_buffer_size(src, call.needle,
                                                        DEFAULT_BUF_SIZE, call.algo))

\* with_algorithm built a finder that searches with KMP for the longest
\* needle the default buffer size admits
C25_Witness ==
    /\ call.op = "with_algorithm"
    /\ call.algo = "Kmp"
    /\ result = "Ok"
    /\ finder[1].algo = "Kmp"
    /\ Len(finder[1].needle) = DEFAULT_BUF_SIZE
    /\ Len(finder[1].buffer) = 2 * DEFAULT_BUF_SIZE - 1

\* the sixteen hex digits in lower case, in the order of their values
LowerDigits == << 48, 49, 50, 51, 52, 53, 54, 55, 56, 57,
                 97, 98, 99, 100, 101, 102 >>
ToLower(c) == IF c >= 65 /\ c <= 90 THEN c + 32 ELSE c
IsHexDigit(c) == \E v \in 1..16 : LowerDigits[v] = ToLower(c)
\* the value of hex digit c
DigitValue(c) == (CHOOSE v \in 1..16 : LowerDigits[v] = ToLower(c)) - 1
AllHex(data) == \A i \in 1..Len(data) : IsHexDigit(data[i])

\* C26: decode on an even-length input made only of hex digits returns
\* the input.len()/2 bytes whose k-th is 16 * value(input[2k]) +
\* value(input[2k+1]), upper and lower case digits alike; the empty input
\* decodes to the empty vector.
C26_DecodeBytes ==
    LET data == decoded.input
    IN  (/\ decoded.tag # "none"
         /\ Len(data) % 2 = 0
         /\ AllHex(data))
            => /\ decoded.tag = "Ok"
               /\ Len(decoded.bytes) = Len(data) \div 2
               /\ \A k \in 0..(Len(decoded.bytes) - 1) :
                     decoded.bytes[k + 1] = 16 * DigitValue(data[2 * k + 1])
                                              + DigitValue(data[2 * k + 2])
               /\ decode([i \in 1..Len(data) |-> ToLower(data[i])])
                     = HexOk(decoded.bytes)

\* "Ff9a" decoded to the two bytes 255 and 154
C26_Witness ==
    /\ decoded.input = << 70, 102, 57, 97 >>
    /\ decoded.tag = "Ok"
    /\ decoded.bytes = << 255, 154 >>

\* the zero-based index of the leftmost byte of data that is no hex digit
FirstInvalid(data) ==
    MinOf({i \in 1..Len(data) : ~IsHexDigit(data[i])}) - 1

\* C27: decode fails with OddLength on every odd-length input, whatever
\* its bytes, and on an even-length input holding a byte that is no hex
\* digit with InvalidHexCharacter carrying the leftmost such byte and its
\* zero-based index.
C27_DecodeErrors ==
    LET data == decoded.input
    IN  decoded.tag # "none"
            => /\ Len(data) % 2 = 1 => decoded.tag = "OddLength"
               /\ (Len(data) % 2 = 0 /\ ~AllHex(data))
                     => /\ decoded.tag = "InvalidHexCharacter"
                        /\ decoded.index = FirstInvalid(data)
                        /\ decoded.c = data[FirstInvalid(data) + 1]

\* an input of two pairs with a valid first pair, an invalid second byte
\* of the second pair reported at index 3, though the pair before it held
\* no error and a non-ASCII byte is reported as it is
C27_Witness ==
    /\ Len(decoded.input) = 4
    /\ decoded.tag = "InvalidHexCharacter"
    /\ decoded.index = 3
    /\ decoded.c = 195

\* C28: base-offset invariant - whenever next() returns or is about to
\* start a loop iteration, haystack_pos is the number of source bytes
\* before buffer[0]: the bytes read from the source so far less
\* buffer_fill_len.
C28_BaseOffset ==
    F.haystack_pos = F.haystack.pos - F.buffer_fill_len

\* the loop iteration about to run, after its refill block (lines 122-138)
\* if it runs it: ret is Fall when the iteration goes on to the search
Mid == IF F.buffer_pos >= F.buffer_fill_len THEN Refill(F)
                                            ELSE [f |-> F, ret |-> Fall]
\* the finder the search of that iteration sees, and its window
W == Mid.f
Window == Slice(W.buffer, W.buffer_pos, W.buffer_fill_len)
\* the iteration compacted: past the refill block it put the cursor at 0
\* and moved the base offset
Compacted ==
    /\ Mid.ret = Fall
    /\ F'.buffer_pos = 0
    /\ F'.haystack_pos # W.haystack_pos

\* C29: compaction happens only when the buffer is full and the window
\* holds fewer than needle.len() unsearched bytes; then the cursor is at
\* fill - (needle.len()-1), so the bytes before it have all been searched;
\* it copies the last needle.len()-1 valid bytes to the buffer start, sets
\* the cursor to 0 and the fill to needle.len()-1, after which the bytes
\* read are appended.
C29_Compaction ==
    [][Compacted
         => LET tail_len == Len(W.needle) - 1
                n == F'.haystack.pos - W.haystack.pos
            IN  /\ W.buffer_fill_len = Len(W.buffer)
                /\ W.buffer_fill_len - W.buffer_pos < Len(W.needle)
                /\ W.buffer_pos = W.buffer_fill_len - tail_len
                /\ Len(F'.buffer) = Len(W.buffer)
                /\ \A k \in 1..tail_len :
                      F'.buffer[k] = W.buffer[W.buffer_fill_len - tail_len + k]
                /\ F'.buffer_pos = 0
                /\ F'.buffer_fill_len = tail_len + n
                /\ \A k \in 1..n :
                      F'.buffer[tail_len + k] = Hay[W.haystack.pos + k]
                /\ F'.needle = W.needle]_vars

\* a finder fed in reads no shorter than its needle that went on with the
\* cursor at 0, a base offset past 0 and the kept byte followed by the last
\* byte of the haystack: its buffer filled up, it compacted and read on
C29_Witness ==
    /\ last = Continue
    /\ Len(F.needle) = MaxNeedle
    /\ F.haystack.chunk >= Len(F.needle)
    /\ F.buffer_pos = 0
    /\ F.haystack_pos > 0
    /\ F.buffer_fill_len = Len(F.needle)
    /\ F.haystack.pos = Len(Hay)
    /\ F.haystack.pos > Len(F.buffer)

\* C30: window advance - on a no-match with fill - cursor >= needle.len()
\* the cursor moves forward by (fill - cursor) - (needle.len()-1), which
\* is at least 1; no read is issued, fill and buffer contents stay as
\* they are, and needle.len()-1 bytes remain between cursor and fill.
C30_WindowAdvance ==
    [][(/\ Mid.ret = Fall
        /\ Occurrences(Window, W.needle) = {}
        /\ W.buffer_fill_len - W.buffer_pos >= Len(W.needle))
         => LET advance == (W.buffer_fill_len - W.buffer_pos)
                               - (Len(W.needle) - 1)
            IN  /\ advance >= 1
                /\ F'.buffer_pos = W.buffer_pos + advance
                /\ F'.haystack = W.haystack
                /\ F'.buffer_fill_len = W.buffer_fill_len
                /\ F'.buffer = W.buffer
                /\ F'.buffer_fill_len - F'.buffer_pos = Len(W.needle) - 1
                /\ last' = Continue
                /\ items' = items]_vars

\* before any call has returned, the cursor stands three bytes into the
\* buffer with needle.len()-1 bytes left between it and the fill
C30_Witness ==
    /\ items = << >>
    /\ last = Continue
    /\ Len(F.needle) = MaxNeedle
    /\ F.buffer_pos >= 3
    /\ F.buffer_fill_len - F.buffer_pos = Len(F.needle) - 1

\* C31: match step - when the search of an iteration finds the needle at
\* relative offset i (the leftmost one in the window), next() returns with
\* that one item, base + cursor + i; the cursor becomes cursor + i + 1;
\* base offset, fill and buffer contents stay as they are and the step
\* reads nothing.
C31_MatchStep ==
    [][(/\ Mid.ret = Fall
        /\ Occurrences(Window, W.needle) # {})
         => LET i == MinOf(Occurrences(Window, W.needle))
            IN  /\ last' = ROk(W.haystack_pos + W.buffer_pos + i)
                /\ items' = Append(items, last')
                /\ F'.buffer_pos = W.buffer_pos + i + 1
                /\ F'.haystack_pos = W.haystack_pos
                /\ F'.buffer_fill_len = W.buffer_fill_len
                /\ F'.buffer = W.buffer
                /\ F'.haystack = W.haystack
                /\ F'.needle = W.needle]_vars

\* a second match was returned, found past the start of the window: its
\* value is base + cursor - 1 and the cursor is not right after the
\* first match of the buffer
C31_Witness ==
    /\ Len(items) = 2
    /\ items[1].kind = "Ok"
    /\ last = items[2]
    /\ last.kind = "Ok"
    /\ last.pos > items[1].pos + 1
    /\ last.pos = F.haystack_pos + F.buffer_pos - 1
    /\ F.buffer_pos >= 3

\* what is left to do: the bytes the source has still to deliver, counted
\* a buffer and one each, plus the room the cursor has left in the buffer
Rank(f) ==
    (Len(f.haystack.data) - f.haystack.pos) * (Len(f.buffer) + 1)
        + (Len(f.buffer) - f.buffer_pos)

\* C32: progress and termination - over a finite source each loop
\* iteration of next() returns, reads at least one new byte or strictly
\* increases the cursor; every iteration that does not return None makes
\* Rank, a natural number, strictly smaller, so a call returns after
\* finitely many iterations and iterating to None terminates.
C32_Progress ==
    [][(/\ \/ last' # Continue
            \/ F'.haystack.pos > F.haystack.pos
            \/ F'.buffer_pos > F.buffer_pos
        /\ (last' # RNone => Rank(F') < Rank(F))
        /\ Rank(F') >= 0)]_vars

\* a call that is still looping after the source delivered its last byte,
\* past a match and with the window moved on
C32_Witness ==
    /\ last = Continue
    /\ Len(Hay) = MaxHay
    /\ F.haystack.pos = Len(Hay)
    /\ F.haystack.chunk < Len(F.buffer)
    /\ Len(items) >= 1
    /\ F.buffer_pos > 0
    /\ Rank(F) < Len(F.buffer)

\* the indices of finder f are in range: cursor within the fill, the fill
\* within the buffer, and the cursor not past the last place a match
\* could start once the fill reaches needle.len()-1
InRange(f) ==
    /\ 0 <= f.buffer_pos
    /\ f.buffer_pos <= f.buffer_fill_len
    /\ f.buffer_fill_len <= Len(f.buffer)
    /\ Len(f.needle) >= 1
    /\ Len(f.buffer) >= 1
    /\ f.buffer_fill_len >= Len(f.needle) - 1
          => f.buffer_pos <= f.buffer_fill_len - (Len(f.needle) - 1)

\* C33: buffer index invariant - in every state, and in the state the
\* search of the coming iteration sees, 0 <= buffer_pos <= buffer_fill_len
\* <= buffer.len(), and buffer_pos <= buffer_fill_len - (needle.len()-1)
\* whenever the fill is that long; on the need-more path the read gets a
\* non-empty slice of the buffer (after the compaction if there is one)
\* and the copy and the advance subtract nothing larger than what they
\* subtract from.
C33_IndexInvariant ==
    /\ InRange(F)
    /\ Mid.ret = Fall
          => /\ InRange(W)
             /\ LET tail_len == Len(W.needle) - 1
                IN  IF Occurrences(Window, W.needle) # {} THEN TRUE
                    ELSE IF W.buffer_pos + Len(W.needle) > W.buffer_fill_len
                    THEN IF W.buffer_fill_len >= Len(W.buffer)
                         THEN /\ W.buffer_fill_len - tail_len >= 0
                              /\ Len(W.buffer) - tail_len >= 0
                              /\ tail_len < Len(W.buffer)
                         ELSE W.buffer_fill_len < Len(W.buffer)
                    ELSE (W.buffer_fill_len - W.buffer_pos) - tail_len >= 0

\* a match found at the last place of a full buffer: the cursor stands
\* exactly needle.len()-1 bytes before the fill
C33_Witness ==
    /\ last.kind = "Ok"
    /\ Len(F.needle) = MaxNeedle
    /\ F.buffer_fill_len = Len(F.buffer)
    /\ Len(F.buffer) = MaxBuf + MaxNeedle - 1
    /\ F.buffer_pos = F.buffer_fill_len - (Len(F.needle) - 1)

\* the number of bytes the first successful read of F delivers
FirstRead ==
    MinOf({F.haystack.chunk, Len(Hay), Len(F.buffer)})

\* C34: short first read - when the first successful read of a finder
\* (nothing delivered yet, base offset 0) returns n bytes with 0 < n <
\* needle.len(), the next() call that made it returns None at once: it
\* makes no other read, whatever the source holds or would do next.
C34_ShortFirstRead ==
    [][(/\ F.haystack.pos = 0
        /\ F.haystack.until_fail # 1
        /\ 0 < FirstRead
        /\ FirstRead < Len(F.needle))
         => /\ F.haystack_pos = 0
            /\ last' = RNone
            /\ items' = Append(items, RNone)
            /\ F'.haystack.pos = FirstRead
            /\ F'.buffer_fill_len = FirstRead
            /\ F'.haystack.until_fail =
                  (IF F.haystack.until_fail > 1 THEN F.haystack.until_fail - 1
                                                ELSE 0)]_vars

\* the first read failed, the second delivered one byte of a haystack
\* that holds the two-byte needle, and the call returned None with the
\* rest of the haystack unread
C34_Witness ==
    /\ items = << RErr, RNone >>
    /\ last = RNone
    /\ Len(F.needle) = 2
    /\ F.haystack.pos = 1
    /\ F.buffer_fill_len = 1
    /\ Occurrences(Hay, F.needle) # {}

RECURSIVE MmapCollect(_)
\* the positions a find_all iterator yields from state it to its first None
MmapCollect(it) ==
    LET s == MmapFinderIter_next(it)
    IN  IF s.ret = RNone THEN << >>
        ELSE << s.ret.pos >> \o MmapCollect(s.it)

\* the source of F fills every read request completely until its data
\* is used up
FullReads == F.haystack.chunk >= Len(Hay)

\* C35: streaming and zero-copy modes agree - a streaming finder whose
\* source fills each read request completely yields, iterated to its end,
\* the position list that find_all yields over the same bytes with the
\* same needle and algorithm.
C35_ModesAgree ==
    (Ended /\ FullReads)
        => PositionsOf(Yielded)
             = MmapCollect(MmapFinder_find_all([mmap |-> Hay,
                                                needle |-> F.needle], F.algo))

\* the bytes of finder f between cursor and fill
Unsearched(f) == Slice(f.buffer, f.buffer_pos, f.buffer_fill_len)

\* an iteration ends in Some(Err): one item, base + cursor, the buffered
\* unsearched bytes and the stream position are what they were
C36_ErrKeepsState ==
    last' = RErr
        => /\ items' = Append(items, RErr)
           /\ F'.haystack_pos + F'.buffer_pos = F.haystack_pos + F.buffer_pos
           /\ Unsearched(F') = Unsearched(F)
           /\ F'.haystack.pos = F.haystack.pos
           /\ F'.haystack.data = F.haystack.data
           /\ F'.needle = F.needle

\* the iteration after a Some(Err) issues the read again: the bytes that
\* follow the stream position go behind the buffered ones, as many as fit
C36_ReadAgain ==
    last = RErr
        => LET n == F'.haystack.pos - F.haystack.pos
           IN  /\ n = MinOf({F.haystack.chunk, Len(Hay) - F.haystack.pos,
                             Len(F.buffer) - F.buffer_fill_len})
               /\ \A k \in 1..n :
                     F'.buffer[F.buffer_fill_len + k] = Hay[F.haystack.pos + k]
               /\ n > 0 => /\ F'.haystack_pos + F'.buffer_pos
                                 >= F.haystack_pos + F.buffer_pos
                           /\ F'.buffer_fill_len = F.buffer_fill_len + n

\* C36: a failed read consumes nothing - when a read returns an error the
\* finder yields Err and keeps base + cursor and the buffered unsearched
\* bytes as they were, and the following call issues the read again from
\* the same stream position.
C36_FailedReadConsumesNothing ==
    [][C36_ErrKeepsState /\ C36_ReadAgain]_vars

\* a read for more data failed with the window moved on and unsearched
\* bytes in the buffer
C36_Witness ==
    /\ last = RErr
    /\ F.buffer_pos > 0
    /\ F.buffer_fill_len > F.buffer_pos
    /\ F.haystack.pos < Len(Hay)

\* C37: per-worker buffer budget - for every memory_limit >= 0 and
\* max_threads >= 1, threads_to_use is in 1..=max_threads,
\* per_thread_limit is max(1, memory_limit / threads_to_use) and so at
\* least 1, and per_thread_limit * threads_to_use <= memory_limit whenever
\* memory_limit >= threads_to_use.
C37_BufferBudget ==
    budget.done
        => /\ budget.threads_to_use >= 1
           /\ budget.threads_to_use <= budget.max_threads
           /\ budget.per_thread_limit
                 = MaxOf2(1, budget.memory_limit \div budget.threads_to_use)
           /\ budget.per_thread_limit >= 1
           /\ budget.memory_limit >= budget.threads_to_use
                 => budget.per_thread_limit * budget.threads_to_use
                       <= budget.memory_limit

\* a limit the full pool does not divide: 8 threads with 1 byte each out
\* of a limit of 9
C37_Witness ==
    /\ budget.done
    /\ budget.memory_limit = 9
    /\ budget.max_threads = 8
    /\ budget.threads_to_use = 8
    /\ budget.per_thread_limit = 1

\* C38: BMH shift table - for a needle of length m, shift[b] = m for every
\* byte b that does not occur in needle[0..m-1), and shift[b] = m-1-j with
\* j the last index of b in needle[0..m-1) otherwise; so every shift is
\* in 1..=m and the scan index strictly increases on each mismatch.
\* the 0-based indices of b in needle[0..m-1)
IndicesBeforeLast(needle, b) ==
    {j \in 0..(Len(needle) - 2) : needle[j + 1] = b}

LastOf(S) == CHOOSE x \in S : \A y \in S : x >= y

StrictlyIncreasing(seq) == \A a \in 1..(Len(seq) - 1) : seq[a] < seq[a + 1]

C38_ShiftTable ==
    (probe.fn = "bmh_search" /\ probe.table # << >>)
        => LET m == Len(probe.needle)
           IN  /\ DOMAIN probe.table = 0..(TABLE_SIZE - 1)
               /\ \A b \in 0..(TABLE_SIZE - 1) :
                     /\ probe.table[b]
                          = IF IndicesBeforeLast(probe.needle, b) = {}
                            THEN m
                            ELSE m - 1 - LastOf(IndicesBeforeLast(probe.needle, b))
                     /\ probe.table[b] >= 1
                     /\ probe.table[b] <= m
               /\ StrictlyIncreasing(probe.trace)

\* a needle whose first byte comes again before its last one, scanned
\* over two mismatches with different shifts
C38_Witness ==
    /\ probe.fn = "bmh_search"
    /\ probe.needle = << 0, 0, 1 >>
    /\ probe.table[0] = 1
    /\ probe.table[1] = 3
    /\ Len(probe.trace) >= 3
    /\ probe.trace[2] - probe.trace[1] # probe.trace[3] - probe.trace[2]

\* C39: KMP failure table - after construction, for every i in 0..m,
\* prefix[i] is the length of the longest proper prefix of needle[0..=i]
\* that is also a suffix of needle[0..=i] (so prefix[0] = 0 and
\* prefix[i] <= i), and during the scan the partial-match length k stays
\* within 0..m: below m whenever needle[k] is read, and m only on the
\* step that returns the match.
\* the lengths of the proper prefixes of s that are also suffixes of s
Borders(s) ==
    {l \in 0..(Len(s) - 1) :
        SubSeq(s, 1, l) = SubSeq(s, Len(s) - l + 1, Len(s))}

C39_FailureTable ==
    (probe.fn = "kmp_search" /\ probe.table # << >>)
        => LET m == Len(probe.needle)
           IN  /\ Len(probe.table) = m
               /\ \A i \in 0..(m - 1) :
                     /\ probe.table[i + 1]
                          = LastOf(Borders(SubSeq(probe.needle, 1, i + 1)))
                     /\ probe.table[i + 1] <= i
               /\ probe.table[1] = 0
               /\ \A a \in 1..Len(probe.lens) :
                     /\ probe.lens[a] >= 0
                     /\ probe.lens[a] <= m
                     /\ probe.lens[a] = m
                          => a = Len(probe.lens) /\ probe.ret # NotFound

\* a needle with a border of length 2, matched after the scan fell back
\* from a partial match to a shorter one that is not empty
C39_Witness ==
    /\ probe.fn = "kmp_search"
    /\ probe.needle = << 0, 0, 0, 1 >>
    /\ probe.table = << 0, 1, 2, 0 >>
    /\ probe.ret # NotFound
    /\ \E a \in 1..(Len(probe.lens) - 1) :
          probe.lens[a] = 3 /\ probe.lens[a + 1] = 2

====
